---------------------------- MODULE Spec2Model ----------------------------
(***************************************************************************)
(* Model of the apartment-parser bot: the polling goroutine (parseOffers   *)
(* and processAllOffersFromSearch), the offer store (AddOffer,             *)
(* OfferExists), the search store (AddSearch, DeleteSearch,                *)
(* GetAllSearches) and the request handler that adds and deletes searches  *)
(* while the polling goroutine runs (specification Spec); and of the       *)
(* parser package's functions, applied to inputs drawn from bounded sets   *)
(* (specification ParserSpec).                                             *)
(*                                                                         *)
(* Go strings are TLA+ strings; len(s) is Len(s) and s[:n] is              *)
(* SubSeq(s, 1, n) (all strings compared by prefix here are ASCII).        *)
(***************************************************************************)
EXTENDS Integers, Sequences, FiniteSets, Bags, TLC

(***************************************************************************)
(* Bounds of the model.                                                    *)
(***************************************************************************)
\* Number of passes (calls of processAllOffersFromSearch) the poller makes.
MaxPasses == 2
\* Highest id the AUTOINCREMENT column of the searches table hands out.
MaxSearchId == 2
\* Highest number of card fragments on one listing page.
MaxFragments == 2
\* Longest text of the generated price texts.
MaxTextLen == 3
\* Most tokens of a document in the token-by-token scan of ParseHtml.
MaxScanLen == 6

(***************************************************************************)
(* Input domains.                                                          *)
(***************************************************************************)
\* Telegram chat ids of the subscribers.
Users == {1, 2}
\* Listing-page URLs CreateUrl can hand to AddSearch.
SearchUrls == {"https://www.olx.pl/nieruchomosci/mieszkania/wynajem/poznan/"}

OlxUrl == "https://www.olx.pl/d/oferta/a.html"
OtodomUrl == "https://www.otodom.pl/pl/oferta/b"
\* Image lists a detail page can carry.
ImageLists == {<<>>, <<"https://img/1.jpg">>}

\* Offer{} : the zero value extractOffer returns for a discarded fragment.
EmptyOffer ==
    [Title |-> "", Price |-> 0, Location |-> "", Time |-> "", Url |-> "",
     AdditionalPayment |-> 0, Description |-> "", Rooms |-> "", Area |-> "",
     Floor |-> "", Images |-> <<>>]

ListedOffer(title, price, time, url) ==
    [EmptyOffer EXCEPT !.Title = title, !.Price = price, !.Time = time, !.Url = url]

\* Offers extractOffer can return for one card of a listing page.  The values
\* of Offer.Time are those the repository's extractors produce: the raw date
\* token of the listing ("Dzisiaj o 14:30", parser/parser.go:227), the shifted
\* clock time ("16:30", extractLocationAndTime) and the empty time of a
\* listing that is not dated today.  The first two offers share title and
\* price and differ in every other field.
ListingOffers ==
    { ListedOffer("Kawalerka", 1700, "Dzisiaj o 14:30", OlxUrl),
      ListedOffer("Kawalerka", 1700, "16:30", OtodomUrl),
      ListedOffer("Mieszkanie", 1700, "", OlxUrl) }

\* What extractOffer returns for the fragments of a page, in document order.
Fragments == ListingOffers \cup {EmptyOffer}

RECURSIVE SeqsUpTo(_, _)
SeqsUpTo(S, n) ==
    IF n = 0 THEN {<<>>}
    ELSE LET shorter == SeqsUpTo(S, n - 1)
         IN  shorter \cup {Append(s, x) : s \in {t \in shorter : Len(t) = n - 1}, x \in S}

Pages == SeqsUpTo(Fragments, MaxFragments)

\* strings.HasPrefix
HasPrefix(s, prefix) ==
    Len(s) >= Len(prefix) /\ SubSeq(s, 1, Len(prefix)) = prefix

(***************************************************************************)
(* strings, regexp, strconv and time, as the parser uses them.             *)
(***************************************************************************)
\* Stands for U+00A0, the non-breaking space, in the texts of the model.
Nbsp == "_"

\* unicode.IsSpace, on the characters the texts of the model are made of.
WhiteSpace == {" ", "\t", "\n", Nbsp}

Digits == <<"0", "1", "2", "3", "4", "5", "6", "7", "8", "9">>

IsDigit(c) == \E i \in 1..10 : Digits[i] = c

DigitVal(c) == (CHOOSE i \in 1..10 : Digits[i] = c) - 1

\* strings.Index, 1-based; 0 when `sub` does not occur in `s`.
Index(s, sub) ==
    LET at == {i \in 1..(Len(s) - Len(sub) + 1) : SubSeq(s, i, i + Len(sub) - 1) = sub}
    IN  IF at = {} THEN 0 ELSE CHOOSE i \in at : \A j \in at : i <= j

\* strings.Contains
Contains(s, sub) == Index(s, sub) # 0

\* strings.Split
RECURSIVE Split(_, _)
Split(s, sep) ==
    LET i == Index(s, sep)
    IN  IF i = 0 THEN <<s>>
        ELSE <<SubSeq(s, 1, i - 1)>> \o Split(SubSeq(s, i + Len(sep), Len(s)), sep)

\* strings.TrimSpace
RECURSIVE TrimSpace(_)
TrimSpace(s) ==
    IF s = "" THEN s
    ELSE IF SubSeq(s, 1, 1) \in WhiteSpace THEN TrimSpace(SubSeq(s, 2, Len(s)))
    ELSE IF SubSeq(s, Len(s), Len(s)) \in WhiteSpace THEN TrimSpace(SubSeq(s, 1, Len(s) - 1))
    ELSE s

\* strings.ReplaceAll(s, old, "") for a one-character `old`
RECURSIVE RemoveAll(_, _)
RemoveAll(s, old) ==
    IF s = "" THEN s
    ELSE (IF SubSeq(s, 1, 1) = old THEN "" ELSE SubSeq(s, 1, 1))
             \o RemoveAll(SubSeq(s, 2, Len(s)), old)

\* strings.Join(parts, "")
RECURSIVE Join(_)
Join(parts) == IF parts = <<>> THEN "" ELSE Head(parts) \o Join(Tail(parts))

\* The longest run of digits at the start of s (the match of \d+ at its start).
RECURSIVE DigitRun(_)
DigitRun(s) ==
    IF s = "" \/ ~IsDigit(SubSeq(s, 1, 1)) THEN ""
    ELSE SubSeq(s, 1, 1) \o DigitRun(SubSeq(s, 2, Len(s)))

\* regexp.MustCompile(`\d+`).FindAllString(s, -1)
RECURSIVE FindAllString(_)
FindAllString(s) ==
    IF s = "" THEN <<>>
    ELSE LET run == DigitRun(s)
         IN  IF run = "" THEN FindAllString(SubSeq(s, 2, Len(s)))
             ELSE <<run>> \o FindAllString(SubSeq(s, Len(run) + 1, Len(s)))

\* The largest value of Go's int on a build with 32-bit int (strconv.IntSize
\* = 32); on a 64-bit build the bound is 2^63 - 1 and strconv.Atoi has the
\* same shape.
MaxInt == 2147483647

\* strconv.Atoi on the digits left to read, `n` being the value read so far
\* (of a numeral with a minus sign when `neg`): a value above MaxInt, or below
\* -MaxInt - 1, is a range error.
RECURSIVE AtoiFrom(_, _, _)
AtoiFrom(s, n, neg) ==
    IF s = "" THEN [val |-> n, err |-> FALSE]
    ELSE IF ~IsDigit(SubSeq(s, 1, 1)) \/ n < 0 - MaxInt THEN [val |-> 0, err |-> TRUE]
    ELSE LET d == DigitVal(SubSeq(s, 1, 1))
             limit == IF neg /\ d >= 1 THEN MaxInt - d + 1 ELSE MaxInt - d
         IN  IF (IF neg THEN 0 - n ELSE n) > limit \div 10 THEN [val |-> 0, err |-> TRUE]
             ELSE AtoiFrom(SubSeq(s, 2, Len(s)), IF neg THEN n * 10 - d ELSE n * 10 + d, neg)

\* strconv.Atoi: an optional sign, then digits only.
Atoi(s) ==
    IF s = "" THEN [val |-> 0, err |-> TRUE]
    ELSE IF SubSeq(s, 1, 1) \in {"+", "-"}
    THEN IF Len(s) = 1 THEN [val |-> 0, err |-> TRUE]
         ELSE AtoiFrom(SubSeq(s, 2, Len(s)), 0, SubSeq(s, 1, 1) = "-")
    ELSE AtoiFrom(s, 0, FALSE)

\* regexp.MustCompile(`\d{2}:\d{2}`).FindStringSubmatch(s): the leftmost
\* match, or "" when there is none.
FindTime(s) ==
    LET at == {i \in 1..(Len(s) - 4) :
                 /\ IsDigit(SubSeq(s, i, i)) /\ IsDigit(SubSeq(s, i + 1, i + 1))
                 /\ SubSeq(s, i + 2, i + 2) = ":"
                 /\ IsDigit(SubSeq(s, i + 3, i + 3)) /\ IsDigit(SubSeq(s, i + 4, i + 4))}
    IN  IF at = {} THEN ""
        ELSE LET i == CHOOSE k \in at : \A j \in at : k <= j IN SubSeq(s, i, i + 4)

TwoDigits(n) == Digits[(n \div 10) + 1] \o Digits[(n % 10) + 1]

\* TimezoneOffset of OLXConfig, in hours.
TimezoneOffset == 2

\* The shifted hour written as it is, past 23.
ShiftTimeNoWrap(m, offset) ==
    LET hh == 10 * DigitVal(SubSeq(m, 1, 1)) + DigitVal(SubSeq(m, 2, 2))
        mm == 10 * DigitVal(SubSeq(m, 4, 4)) + DigitVal(SubSeq(m, 5, 5))
    IN  IF hh > 23 \/ mm > 59 THEN ""
        ELSE TwoDigits(hh + offset) \o ":" \o TwoDigits(mm)

\* The match shifted without time.Parse refusing an hour or minute out of
\* range.
ShiftTimeUnparsed(m, offset) ==
    LET hh == 10 * DigitVal(SubSeq(m, 1, 1)) + DigitVal(SubSeq(m, 2, 2))
        mm == 10 * DigitVal(SubSeq(m, 4, 4)) + DigitVal(SubSeq(m, 5, 5))
    IN  TwoDigits((hh + offset) % 24) \o ":" \o TwoDigits(mm)

\* time.Parse("15:04", m), then t.Add(offset) and t.Format("15:04"), for a
\* match m of the time pattern: "" when the hour or the minute is out of
\* range.
ShiftTime(m, offset) ==
    LET hh == 10 * DigitVal(SubSeq(m, 1, 1)) + DigitVal(SubSeq(m, 2, 2))
        mm == 10 * DigitVal(SubSeq(m, 4, 4)) + DigitVal(SubSeq(m, 5, 5))
    IN  IF hh > 23 \/ mm > 59 THEN ""
        ELSE TwoDigits((hh + offset) % 24) \o ":" \o TwoDigits(mm)

(***************************************************************************)
(* parser: the helpers of extractOfferWithConfig.                          *)
(***************************************************************************)
\* OLXConfig.BaseURL and OLXConfig.TodayKeyword
BaseURL == "https://www.olx.pl"
TodayKeyword == "Dzisiaj"

normalizeURL(url, baseURL) ==
    IF HasPrefix(url, "/") THEN baseURL \o url
    ELSE IF ~HasPrefix(url, "http") THEN baseURL \o "/" \o url
    ELSE url

extractPriceFirstRun(text) ==
    LET matches == FindAllString(RemoveAll(RemoveAll(text, " "), Nbsp))
    IN  IF Len(matches) > 0 /\ ~Atoi(Head(matches)).err THEN Atoi(Head(matches)).val
        ELSE 0

extractPrice(text) ==
    LET matches == FindAllString(RemoveAll(RemoveAll(text, " "), Nbsp))
    IN  IF Len(matches) > 0 /\ ~Atoi(Join(matches)).err THEN Atoi(Join(matches)).val
        ELSE 0

extractLocationAndTimeAnyDay(text) ==
    LET parts == Split(text, " - ")
    IN  IF Len(parts) >= 2
        THEN LET m == FindTime(TrimSpace(parts[2]))
             IN  [location |-> TrimSpace(parts[1]),
                  timeStr |-> IF m = "" THEN "" ELSE ShiftTime(m, TimezoneOffset)]
        ELSE [location |-> text, timeStr |-> ""]

extractLocationAndTime(text) ==
    LET parts == Split(text, " - ")
    IN  IF Len(parts) >= 2
        THEN LET location == TrimSpace(parts[1])
                 dateTimeStr == TrimSpace(parts[2])
                 m == FindTime(dateTimeStr)
             IN  IF ~Contains(dateTimeStr, TodayKeyword)
                 THEN [location |-> location, timeStr |-> ""]
                 ELSE [location |-> location,
                       timeStr |-> IF m = "" THEN "" ELSE ShiftTime(m, TimezoneOffset)]
        ELSE [location |-> text, timeStr |-> ""]

(***************************************************************************)
(* parser: html tokens, extractOfferWithConfig and the segmentation of     *)
(* ParseHtml.  A token is html.Token with the attributes the parser reads; *)
(* an attribute that is absent is "", as getAttr returns it.               *)
(***************************************************************************)
Token(tt, data) ==
    [tt |-> tt, data |-> data, href |-> "", testid |-> "", cy |-> "", class |-> "",
     sentry |-> "", type |-> "", src |-> ""]

StartTag(tag) == Token("start", tag)
EndTag(tag) == Token("end", tag)
SelfClosingTag(tag) == Token("selfclosing", tag)
TextToken(text) == Token("text", text)

\* ` key="val"` of html.Token.String, for an attribute that is present.
AttrString(key, val) == IF val = "" THEN "" ELSE " " \o key \o "=\"" \o val \o "\""

\* html.Token.String
TokenString(t) ==
    IF t.tt = "text" THEN t.data
    ELSE IF t.tt = "end" THEN "</" \o t.data \o ">"
    ELSE "<" \o t.data \o AttrString("data-cy", t.cy) \o AttrString("data-testid", t.testid)
             \o AttrString("data-sentry-element", t.sentry) \o AttrString("type", t.type)
             \o AttrString("class", t.class) \o AttrString("href", t.href)
             \o AttrString("src", t.src)
             \o (IF t.tt = "selfclosing" THEN "/>" ELSE ">")

\* The text of a fragment: the tokens ParseHtml appended to offerContent.
RECURSIVE FragmentText(_)
FragmentText(tokens) ==
    IF tokens = <<>> THEN ""
    ELSE IF Len(tokens) = 1 THEN TokenString(tokens[1])
    ELSE LET half == Len(tokens) \div 2
         IN  FragmentText(SubSeq(tokens, 1, half))
                 \o FragmentText(SubSeq(tokens, half + 1, Len(tokens)))

\* The marker of a featured card, "Wyróżnione", in ASCII letters.
FeaturedMarker == "Wyroznione"

\* The selectors of OLXConfig.
OLXConfig ==
    [TitleSelector |-> [Tag |-> "h4", Attribute |-> "", Value |-> ""],
     PriceSelector |-> [Tag |-> "p", Attribute |-> "data-testid", Value |-> "ad-price"],
     LocationSelector |-> [Tag |-> "p", Attribute |-> "data-testid", Value |-> "location-date"]]

\* getAttr(t.Attr, key)
getAttr(t, key) ==
    IF key = "data-testid" THEN t.testid
    ELSE IF key = "data-cy" THEN t.cy
    ELSE IF key = "class" THEN t.class
    ELSE IF key = "href" THEN t.href
    ELSE ""

\* matchesSelector(token, selector); checkAttr is asked for a value that is
\* not empty, so an absent attribute does not match.
matchesSelector(t, selector) ==
    IF selector.Tag # "" /\ t.data # selector.Tag THEN FALSE
    ELSE IF selector.Attribute # "" /\ selector.Value # ""
    THEN getAttr(t, selector.Attribute) = selector.Value
    ELSE selector.Tag = t.data

\* currentContext after a start tag: the data attributes first, then the
\* selectors of the configuration over them.
SelectContext(current, t, inLink, config) ==
    LET byCy == IF getAttr(t, "data-cy") # "" THEN getAttr(t, "data-cy") ELSE current
        byTestid == IF getAttr(t, "data-testid") # "" THEN getAttr(t, "data-testid") ELSE byCy
    IN  IF matchesSelector(t, config.PriceSelector) THEN "price"
        ELSE IF matchesSelector(t, config.LocationSelector) THEN "location-date"
        ELSE IF matchesSelector(t, config.TitleSelector) /\ inLink THEN "title"
        ELSE byTestid

\* The locals of extractOfferWithConfig before the first token (depth is
\* written and never read, and is left out).
ExtractStart == [offer |-> EmptyOffer, currentContext |-> "", isInLink |-> FALSE]

\* case html.StartTagToken
OnStartTag(st, t) ==
    LET inLink == st.isInLink \/ t.data = "a"
        url == IF t.data = "a" /\ t.href # "" /\ st.offer.Url = ""
               THEN normalizeURL(t.href, BaseURL) ELSE st.offer.Url
        context == SelectContext(st.currentContext, t, inLink, OLXConfig)
    IN  [offer |-> [st.offer EXCEPT !.Url = url], currentContext |-> context,
         isInLink |-> inLink]

\* case html.EndTagToken
OnEndTag(st, t) == IF t.data = "a" THEN [st EXCEPT !.isInLink = FALSE] ELSE st

\* case html.TextToken with the title taken from every text of the title
\* context.
OnTextLastTitle(st, t) ==
    LET text == TrimSpace(t.data)
        o == st.offer
    IN  IF text = "" THEN st
        ELSE IF st.currentContext = "title"
        THEN [st EXCEPT !.offer = [o EXCEPT !.Title = text]]
        ELSE IF st.currentContext \in {"price", "ad-price"}
        THEN LET price == extractPrice(text)
             IN  [st EXCEPT !.offer = IF price > 0 THEN [o EXCEPT !.Price = price] ELSE o]
        ELSE IF st.currentContext = "location-date"
        THEN LET lt == extractLocationAndTime(text)
                 withLocation == IF o.Location = "" /\ lt.location # ""
                                 THEN [o EXCEPT !.Location = lt.location] ELSE o
             IN  [st EXCEPT !.offer = IF o.Time = "" /\ lt.timeStr # ""
                                      THEN [withLocation EXCEPT !.Time = lt.timeStr]
                                      ELSE withLocation]
        ELSE st

\* case html.TextToken
OnText(st, t) ==
    LET text == TrimSpace(t.data)
        o == st.offer
    IN  IF text = "" THEN st
        ELSE IF st.currentContext = "title"
        THEN [st EXCEPT !.offer = IF o.Title = "" THEN [o EXCEPT !.Title = text] ELSE o]
        ELSE IF st.currentContext \in {"price", "ad-price"}
        THEN LET price == extractPrice(text)
             IN  [st EXCEPT !.offer = IF price > 0 THEN [o EXCEPT !.Price = price] ELSE o]
        ELSE IF st.currentContext = "location-date"
        THEN LET lt == extractLocationAndTime(text)
                 withLocation == IF o.Location = "" /\ lt.location # ""
                                 THEN [o EXCEPT !.Location = lt.location] ELSE o
             IN  [st EXCEPT !.offer = IF o.Time = "" /\ lt.timeStr # ""
                                      THEN [withLocation EXCEPT !.Time = lt.timeStr]
                                      ELSE withLocation]
        ELSE st

\* One turn of the tokenizer loop of extractOfferWithConfig.
OnToken(st, t) ==
    IF t.tt = "start" THEN OnStartTag(st, t)
    ELSE IF t.tt = "end" THEN OnEndTag(st, t)
    ELSE IF t.tt = "text" THEN OnText(st, t)
    ELSE st

\* The loop over the tokens, from the locals `st`: the tokens of the first
\* half in order, then those of the second half from the locals `mid` the
\* first half leaves (the test on `mid` has TLC compute it before it goes on).
RECURSIVE ExtractLoop(_, _)
ExtractLoop(tokens, st) ==
    IF tokens = <<>> THEN st
    ELSE IF Len(tokens) = 1 THEN OnToken(st, tokens[1])
    ELSE LET half == Len(tokens) \div 2
             mid == ExtractLoop(SubSeq(tokens, 1, half), st)
         IN  IF mid.isInLink \in BOOLEAN
             THEN ExtractLoop(SubSeq(tokens, half + 1, Len(tokens)), mid)
             ELSE mid

\* The offer under construction after each token of the loop of
\* extractOfferWithConfig, from the locals and the offers in `acc`; halved as
\* ExtractLoop is.
RECURSIVE ExtractTrace(_, _)
ExtractTrace(tokens, acc) ==
    IF tokens = <<>> THEN acc
    ELSE IF Len(tokens) = 1
    THEN LET st == OnToken(acc.st, tokens[1])
         IN  [st |-> st, trace |-> Append(acc.trace, st.offer)]
    ELSE LET half == Len(tokens) \div 2
             mid == ExtractTrace(SubSeq(tokens, 1, half), acc)
         IN  IF mid.st.isInLink \in BOOLEAN
             THEN ExtractTrace(SubSeq(tokens, half + 1, Len(tokens)), mid)
             ELSE mid

extractOfferKeepUrlless(tokens) ==
    IF Contains(FragmentText(tokens), FeaturedMarker) THEN EmptyOffer
    ELSE ExtractLoop(tokens, ExtractStart).offer

extractOfferKeepFeatured(tokens) ==
    LET offer == ExtractLoop(tokens, ExtractStart).offer
    IN  IF offer.Url = "" THEN EmptyOffer ELSE offer

extractOfferSentinelByTitle(tokens) ==
    IF Contains(FragmentText(tokens), FeaturedMarker) THEN EmptyOffer
    ELSE LET offer == ExtractLoop(tokens, ExtractStart).offer
         IN  IF offer.Title = "" THEN EmptyOffer ELSE offer

\* extractOffer(text) = extractOfferWithConfig(text, OLXConfig), for the text
\* whose tokens are `tokens`.
extractOffer(tokens) ==
    IF Contains(FragmentText(tokens), FeaturedMarker) THEN EmptyOffer
    ELSE LET offer == ExtractLoop(tokens, ExtractStart).offer
         IN  IF offer.Url = "" THEN EmptyOffer ELSE offer

\* offerSeparator of ParseHtml
OfferSeparator == "css-1sw7q4x"

\* The locals of ParseHtml before the first token; `contents` collects the
\* offerContent of every card that was closed.
SegmentStart == [isOffer |-> FALSE, offerContent |-> <<>>, depth |-> 0, contents |-> <<>>]

OnPageTokenFirstEndDiv(st, t) ==
    IF t.tt = "start"
    THEN IF ~st.isOffer
         THEN IF t.data = "div" THEN [st EXCEPT !.isOffer = (t.class = OfferSeparator)] ELSE st
         ELSE [st EXCEPT !.offerContent = Append(@, t)]
    ELSE IF t.tt = "end"
    THEN IF st.isOffer /\ t.data = "div"
         THEN [st EXCEPT !.isOffer = FALSE, !.contents = Append(@, st.offerContent),
                         !.offerContent = <<>>]
         ELSE IF st.isOffer THEN [st EXCEPT !.offerContent = Append(@, t)] ELSE st
    ELSE IF st.isOffer THEN [st EXCEPT !.offerContent = Append(@, t)] ELSE st

\* ParseHtml counting, inside a card, only the divs without the separator.
OnPageTokenPlainDivDepth(st, t) ==
    IF t.tt = "start"
    THEN IF ~st.isOffer
         THEN IF t.data = "div" THEN [st EXCEPT !.isOffer = (t.class = OfferSeparator)] ELSE st
         ELSE [st EXCEPT !.depth = IF t.data = "div" /\ t.class # OfferSeparator THEN @ + 1 ELSE @,
                         !.offerContent = Append(@, t)]
    ELSE IF t.tt = "end"
    THEN IF st.isOffer /\ t.data = "div" /\ st.depth = 0
         THEN [st EXCEPT !.isOffer = FALSE, !.contents = Append(@, st.offerContent),
                         !.offerContent = <<>>, !.depth = 0]
         ELSE IF st.isOffer
         THEN [st EXCEPT !.depth = IF t.data = "div" THEN @ - 1 ELSE @,
                         !.offerContent = Append(@, t)]
         ELSE st
    ELSE IF st.isOffer THEN [st EXCEPT !.offerContent = Append(@, t)] ELSE st

\* ParseHtml counting every closing div, those outside a card as well.
OnPageTokenCountsOutside(st, t) ==
    IF t.tt = "start"
    THEN IF ~st.isOffer
         THEN IF t.data = "div" THEN [st EXCEPT !.isOffer = (t.class = OfferSeparator)] ELSE st
         ELSE [st EXCEPT !.depth = IF t.data = "div" THEN @ + 1 ELSE @,
                         !.offerContent = Append(@, t)]
    ELSE IF t.tt = "end"
    THEN IF st.isOffer /\ t.data = "div" /\ st.depth = 0
         THEN [st EXCEPT !.isOffer = FALSE, !.contents = Append(@, st.offerContent),
                         !.offerContent = <<>>]
         ELSE IF st.isOffer
         THEN [st EXCEPT !.depth = IF t.data = "div" THEN @ - 1 ELSE @,
                         !.offerContent = Append(@, t)]
         ELSE [st EXCEPT !.depth = IF t.data = "div" THEN @ - 1 ELSE @]
    ELSE IF st.isOffer THEN [st EXCEPT !.offerContent = Append(@, t)] ELSE st

\* One turn of ParseHtml's tokenizer loop.
OnPageToken(st, t) ==
    IF t.tt = "start"
    THEN IF ~st.isOffer
         THEN IF t.data = "div" THEN [st EXCEPT !.isOffer = (t.class = OfferSeparator)] ELSE st
         ELSE [st EXCEPT !.depth = IF t.data = "div" THEN @ + 1 ELSE @,
                         !.offerContent = Append(@, t)]
    ELSE IF t.tt = "end"
    THEN IF st.isOffer /\ t.data = "div" /\ st.depth = 0
         THEN [st EXCEPT !.isOffer = FALSE, !.contents = Append(@, st.offerContent),
                         !.offerContent = <<>>, !.depth = 0]
         ELSE IF st.isOffer
         THEN [st EXCEPT !.depth = IF t.data = "div" THEN @ - 1 ELSE @,
                         !.offerContent = Append(@, t)]
         ELSE st
    ELSE IF st.isOffer THEN [st EXCEPT !.offerContent = Append(@, t)] ELSE st

\* The loop over the tokens of the page, from the locals `st`: the tokens of
\* the first half in order, then those of the second half from the locals
\* `mid` the first half leaves (the test on `mid` has TLC compute it before it
\* goes on).
RECURSIVE SegmentLoop(_, _)
SegmentLoop(tokens, st) ==
    IF tokens = <<>> THEN st
    ELSE IF Len(tokens) = 1 THEN OnPageToken(st, tokens[1])
    ELSE LET half == Len(tokens) \div 2
             mid == SegmentLoop(SubSeq(tokens, 1, half), st)
         IN  IF mid.isOffer \in BOOLEAN
             THEN SegmentLoop(SubSeq(tokens, half + 1, Len(tokens)), mid)
             ELSE mid

\* ParseHtml handing the card that is open at the end of the document to
\* extractOffer as well.
OfferContentsWithOpenCard(tokens) ==
    LET st == SegmentLoop(tokens, SegmentStart)
    IN  IF st.isOffer THEN Append(st.contents, st.offerContent) ELSE st.contents

\* The fragments ParseHtml hands to extractOffer, in document order.
OfferContents(tokens) == SegmentLoop(tokens, SegmentStart).contents

\* extractOffer applied to each fragment.
ExtractedOffers(contents) == [i \in 1..Len(contents) |-> extractOffer(contents[i])]

(***************************************************************************)
(* Inputs of the parser functions.                                         *)
(***************************************************************************)
\* href values of a card's anchor: root-relative, protocol-relative, bare
\* and absolute ones, and bare paths whose first letters are "http".
HrefHeads == {"", "/", "//", "http", "https", "http://", "https://www.olx.pl/",
              "https://www.otodom.pl/", "ftp://"}
HrefTails == {"", "d/oferta/test.html", "oferta/test.html", "s.olx.pl/a?b=1"}
Hrefs == {h \o t : h \in HrefHeads, t \in HrefTails} \ {""}

\* All texts of at most n characters of the set C.
RECURSIVE TextsUpTo(_, _)
TextsUpTo(C, n) ==
    IF n = 0 THEN {""}
    ELSE LET shorter == TextsUpTo(C, n - 1)
         IN  shorter \cup {t \o c : t \in {u \in shorter : Len(u) = n - 1}, c \in C}

\* Texts of a price paragraph.
PriceTexts ==
    {"1500 zl", "1 700 zl", "2" \o Nbsp \o "000 PLN", "Price: 3000 zl/month",
     "Contact for price", "1 700,50 zl", "od 1 200 do 1 500 zl", "-5", "007",
     "2147483647", "2147483648", "2 147 483 650 zl", "99999999999999999999"}
    \cup TextsUpTo({"0", "7", " ", "z"}, MaxTextLen)

\* Texts of a location-date paragraph.
LocationParts == {"", "Gdansk", "Warszawa, Mokotow ", "Poznan - Grunwald"}
SeparatorParts == {"", " - ", "-", " -  "}
DateParts == {"", "Dzisiaj o 14:30", "Dzisiaj o 23:45 ", "Dzisiaj", "Dzisiaj o 25:10",
              "Dzisiaj o 9:05", "Wczoraj o 14:30", "02 sierpnia 2025",
              "Odswiezono Dzisiaj o 00:00", "12:60 Dzisiaj 12:59", "Dzisiaj o 23:30",
              "Dzisiaj o 25:99"}
LocationTexts == {l \o sep \o d : l \in LocationParts, sep \in SeparatorParts, d \in DateParts}

\* The cards of a listing page.  A card is described by what its markup
\* carries: whether it shows the featured label, whether it has an anchor and
\* the anchor's href ("" for none), whether the h4 title stands inside the
\* anchor, and the texts of the title, of the price paragraph and of the
\* location-date paragraph ("" for a missing one).
CardHrefs == {"", "/d/oferta/a.html", "oferta/b.html",
              "https://www.otodom.pl/pl/oferta/b", "httpd/c.html"}
CardTitles == {"", "Kawalerka", "Pokoj & kuchnia"}
CardPrices == {"", "1 700 zl", "2" \o Nbsp \o "500 zl", "Zamienie"}
CardLocations == {"", "Szczecin, Gumience - Dzisiaj o 14:30", "Gdansk - Dzisiaj o 23:45",
                  "Krakow - 02 sierpnia 2025"}

Cards ==
    {c \in [featured : BOOLEAN, anchor : BOOLEAN, href : CardHrefs, titleInLink : BOOLEAN,
            title : CardTitles, price : CardPrices, location : CardLocations] :
        ~c.anchor => (c.href = "" /\ ~c.titleInLink)}

\* A token, when it has text.
TextTokens(text) == IF text = "" THEN <<>> ELSE <<TextToken(text)>>

\* The markup of a card, inside the div that carries the offer separator.
CardTokens(c) ==
    LET h4 == <<[StartTag("h4") EXCEPT !.class = "css-1g61gc2"]>>
                  \o TextTokens(c.title) \o <<EndTag("h4")>>
        label == IF c.featured
                 THEN <<[StartTag("div") EXCEPT !.testid = "adCard-featured"],
                        TextToken(FeaturedMarker), EndTag("div")>>
                 ELSE <<>>
        link == IF c.anchor
                THEN <<[StartTag("a") EXCEPT !.class = "css-1tqlkj0", !.href = c.href],
                       TextToken("\n\t")>>
                         \o (IF c.titleInLink THEN h4 ELSE <<>>)
                         \o <<EndTag("a")>>
                         \o (IF c.titleInLink THEN <<>> ELSE h4)
                ELSE h4
        price == IF c.price = "" THEN <<>>
                 ELSE <<[StartTag("p") EXCEPT !.testid = "ad-price", !.class = "css-uj7mm0"],
                        TextToken(c.price),
                        [StartTag("span") EXCEPT !.class = "css-18rym86"], EndTag("span"),
                        EndTag("p")>>
        location == IF c.location = "" THEN <<>>
                    ELSE <<[StartTag("p") EXCEPT !.testid = "location-date", !.class = "css-vbz67q"],
                           TextToken(c.location), EndTag("p")>>
    IN  <<[StartTag("div") EXCEPT !.class = "css-1apmciz"], TextToken("\n\t"),
          [StartTag("div") EXCEPT !.cy = "ad-card-title", !.class = "css-u2ayx9"]>>
          \o label \o link \o price
          \o <<EndTag("div"), [StartTag("div") EXCEPT !.class = "css-odp1qd"]>>
          \o location
          \o <<EndTag("div"), EndTag("div")>>

\* A well-formed card: not featured, the title inside an anchor with a
\* root-relative href, a price paragraph with a number and a location-date
\* paragraph dated today.
WellFormedCards ==
    {c \in Cards :
        /\ ~c.featured /\ c.anchor /\ c.titleInLink
        /\ c.href = "/d/oferta/a.html"
        /\ c.title # ""
        /\ c.price \in {"1 700 zl", "2" \o Nbsp \o "500 zl"}
        /\ c.location \in {"Szczecin, Gumience - Dzisiaj o 14:30", "Gdansk - Dzisiaj o 23:45"}}

\* The cards the listing pages of the model are made of: the well-formed
\* ones, and one of them featured, without href, with the title outside the
\* anchor, without title text.
PageCards ==
    LET c == CHOOSE w \in WellFormedCards : w.title = "Kawalerka" /\ w.price = "1 700 zl"
                                             /\ w.location = "Gdansk - Dzisiaj o 23:45"
    IN  WellFormedCards \cup {[c EXCEPT !.featured = TRUE], [c EXCEPT !.href = ""],
                              [c EXCEPT !.titleInLink = FALSE], [c EXCEPT !.title = ""]}

RECURSIVE PageBody(_)
PageBody(cards) ==
    IF cards = <<>> THEN <<>>
    ELSE <<[StartTag("div") EXCEPT !.cy = "l-card", !.testid = "l-card", !.class = OfferSeparator]>>
             \o CardTokens(Head(cards)) \o <<EndTag("div"), TextToken("\n")>>
             \o PageBody(Tail(cards))

\* The tokens of a listing page showing `cards`.
PageTokens(cards) ==
    <<[StartTag("div") EXCEPT !.testid = "listing-grid"], TextToken("\n")>>
        \o PageBody(cards) \o <<EndTag("div")>>

\* The listing pages of the model.
CardPages == SeqsUpTo(PageCards, MaxFragments)

\* The div that opens a card of the listing.
MarkerDiv == [StartTag("div") EXCEPT !.cy = "l-card", !.testid = "l-card", !.class = OfferSeparator]

\* What stands between the opening div of a card and its closing tag; a
\* nested card wraps its markup in one more div carrying the offer separator.
CardFragment(c, nested) ==
    IF nested THEN <<MarkerDiv>> \o CardTokens(c) \o <<EndTag("div")>> ELSE CardTokens(c)

RECURSIVE MarkupBody(_, _, _)
MarkupBody(cards, nested, i) ==
    IF i > Len(cards) THEN <<>>
    ELSE <<MarkerDiv>> \o CardFragment(cards[i], i \in nested) \o <<EndTag("div"), TextToken("\n")>>
             \o MarkupBody(cards, nested, i + 1)

\* The tokens of a listing page showing `cards`, those at the positions of
\* `nested` with the nested separator div.
MarkupTokens(cards, nested) ==
    <<[StartTag("div") EXCEPT !.testid = "listing-grid"], TextToken("\n")>>
        \o MarkupBody(cards, nested, 1) \o <<EndTag("div")>>

\* The cards of the pages whose markup is nested or cut short.
MarkupCards ==
    {c \in WellFormedCards : c.price = "1 700 zl" /\ c.location = "Gdansk - Dzisiaj o 23:45"}

\* Listing pages as the tokenizer delivers them: the first `cut` tokens of
\* the page, the rest lost with the end of the document.
Markups ==
    {[cards |-> cards, nested |-> nested, cut |-> cut] :
        cards \in SeqsUpTo(MarkupCards, MaxFragments),
        nested \in SUBSET (1..MaxFragments),
        cut \in 0..(MaxFragments * 40)}

(***************************************************************************)
(* parser: ParseHtml's result list and ParseOffer.                         *)
(***************************************************************************)
AppendAlways(offers, offer) == Append(offers, offer)

\* ParseHtml appends the extracted offer only when its title is not empty.
AppendIfTitled(offers, offer) ==
    IF offer.Title # "" THEN Append(offers, offer) ELSE offers

RECURSIVE CollectOffers(_, _)
CollectOffers(frags, offers) ==
    IF frags = <<>> THEN offers
    ELSE CollectOffers(Tail(frags), AppendIfTitled(offers, Head(frags)))

\* The list ParseHtml returns for a page whose fragments extract to `frags`.
ParseHtml(frags) == CollectOffers(frags, <<>>)

\* ParseOffer picks a site strategy by the URL's prefix.
HasStrategy(offer) ==
    \/ HasPrefix(offer.Url, "https://www.olx.pl")
    \/ HasPrefix(offer.Url, "https://www.otodom.pl")

\* strings.TrimSuffix
TrimSuffix(s, suffix) ==
    IF Len(s) >= Len(suffix) /\ SubSeq(s, Len(s) - Len(suffix) + 1, Len(s)) = suffix
    THEN SubSeq(s, 1, Len(s) - Len(suffix))
    ELSE s

\* regexp.MustCompile(`\d+`).FindString(s)
FindString(s) == LET matches == FindAllString(s) IN IF matches = <<>> THEN "" ELSE Head(matches)

(***************************************************************************)
(* parser: parseOlxOffer.                                                  *)
(***************************************************************************)
\* The locals of parseOlxOffer before the first token of the page.
OlxStart(offer) == [offer |-> offer, isDescription |-> FALSE, isTag |-> FALSE]

\* case html.TextToken of parseOlxOffer, inside a parameter paragraph
OlxOnTag(offer, data) ==
    IF HasPrefix(data, "Czynsz")
    THEN LET n == Atoi(FindString(RemoveAll(data, " ")))
         IN  [offer EXCEPT !.AdditionalPayment = IF n.err THEN 0 ELSE n.val]
    ELSE IF HasPrefix(data, "Liczba pokoi") THEN [offer EXCEPT !.Rooms = @ \o data]
    ELSE IF HasPrefix(data, "Powierzchnia") THEN [offer EXCEPT !.Area = @ \o data]
    ELSE IF HasPrefix(data, "Poziom") THEN [offer EXCEPT !.Floor = @ \o data]
    ELSE offer

\* One turn of the tokenizer loop of parseOlxOffer.
OlxOnToken(st, t) ==
    IF t.tt = "start"
    THEN IF t.data = "div" THEN [st EXCEPT !.isDescription = (t.class = "css-19duwlz")]
         ELSE IF t.data = "p" THEN [st EXCEPT !.isTag = (t.class = "css-5l1a1j")]
         ELSE st
    ELSE IF t.tt = "text"
    THEN IF st.isDescription THEN [st EXCEPT !.offer.Description = @ \o t.data]
         ELSE IF st.isTag THEN [st EXCEPT !.offer = OlxOnTag(@, t.data)]
         ELSE st
    ELSE IF t.tt = "end"
    THEN IF t.data = "div" /\ st.isDescription THEN [st EXCEPT !.isDescription = FALSE]
         ELSE IF t.data = "p" /\ st.isTag THEN [st EXCEPT !.isTag = FALSE]
         ELSE st
    ELSE IF t.tt = "selfclosing" /\ t.data = "img" /\ t.class = "css-1bmvjcs"
    THEN [st EXCEPT !.offer.Images = Append(@, t.src)]
    ELSE st

\* The tokenizer loop of parseOlxOffer, from the locals `st` (the test on
\* `mid` has TLC compute it before it goes on).
RECURSIVE OlxLoop(_, _)
OlxLoop(tokens, st) ==
    IF tokens = <<>> THEN st
    ELSE IF Len(tokens) = 1 THEN OlxOnToken(st, tokens[1])
    ELSE LET half == Len(tokens) \div 2
             mid == OlxLoop(SubSeq(tokens, 1, half), st)
         IN  IF mid.isTag \in BOOLEAN
             THEN OlxLoop(SubSeq(tokens, half + 1, Len(tokens)), mid)
             ELSE mid

parseOlxOfferResetOnError(offer, detail) ==
    IF detail.err THEN [EmptyOffer EXCEPT !.Url = offer.Url]
    ELSE OlxLoop(detail.page, OlxStart(offer)).offer

\* parseOlxOffer, `detail` being what FetchHTMLPage(offer.Url) answers: an
\* error, or the tokens of the page.
parseOlxOffer(offer, detail) ==
    IF detail.err THEN offer
    ELSE OlxLoop(detail.page, OlxStart(offer)).offer

(***************************************************************************)
(* parser: parseOtodomImages and parseOtodomOffer.  A JSON value is a      *)
(* record of its kind and content, an object being the sequence of its     *)
(* <<key, value>> members.                                                 *)
(***************************************************************************)
JNull == [k |-> "null"]
JNumber(n) == [k |-> "number", n |-> n]
JString(str) == [k |-> "string", s |-> str]
JArray(elems) == [k |-> "array", a |-> elems]
JObject(members) == [k |-> "object", m |-> members]

\* The value under props -> pageProps -> ad of a document.
AdDocument(ad) ==
    JObject(<< <<"props", JObject(<< <<"pageProps", JObject(<< <<"ad", ad>> >>)>> >>)>> >>)

AdText(ad) == "{\"props\":{\"pageProps\":{\"ad\":" \o ad \o "}}}"

ImageUrl == "https://img/1.jpg"

\* The texts of the JSON script of a detail page, each with the value
\* json.Decoder.Decode reads from it; a text that is not in the list (the
\* empty text, a truncated document) is not JSON.
JsonDocs ==
    << [text |-> AdText("{\"images\":[{\"large\":\"" \o ImageUrl \o "\"}]}"),
        value |-> AdDocument(JObject(<< <<"images",
                      JArray(<<JObject(<< <<"large", JString(ImageUrl)>> >>)>>)>> >>))],
       [text |-> AdText("{\"images\":[]}"),
        value |-> AdDocument(JObject(<< <<"images", JArray(<<>>)>> >>))],
       [text |-> AdText("{\"images\":[{\"medium\":\"" \o ImageUrl \o "\"}]}"),
        value |-> AdDocument(JObject(<< <<"images",
                      JArray(<<JObject(<< <<"medium", JString(ImageUrl)>> >>)>>)>> >>))],
       [text |-> AdText("{\"images\":[{\"large\":1}]}"),
        value |-> AdDocument(JObject(<< <<"images",
                      JArray(<<JObject(<< <<"large", JNumber(1)>> >>)>>)>> >>))],
       [text |-> AdText("{}"), value |-> AdDocument(JObject(<<>>))],
       [text |-> "{\"props\":{\"pageProps\":{}}}",
        value |-> JObject(<< <<"props", JObject(<< <<"pageProps", JObject(<<>>)>> >>)>> >>)],
       [text |-> "{\"props\":{}}", value |-> JObject(<< <<"props", JObject(<<>>)>> >>)],
       [text |-> "{}", value |-> JObject(<<>>)] >>

\* Texts that are not JSON: nothing at all, and a document cut short.
MalformedJson == {"", "{\"props\":{\"pageProps\":{\"ad\":{\"images\":[{\"large\":"}

JsonTexts == {JsonDocs[i].text : i \in 1..Len(JsonDocs)} \cup MalformedJson

\* decoder.Decode(&data), data being a map[string]interface{}
Decode(text) ==
    IF \E i \in 1..Len(JsonDocs) : JsonDocs[i].text = text
    THEN [data |-> JsonDocs[CHOOSE i \in 1..Len(JsonDocs) : JsonDocs[i].text = text].value,
          err |-> FALSE]
    ELSE [data |-> JNull, err |-> TRUE]

\* m[key] for a map[string]interface{} : nil when the key is absent.
MapIndex(obj, key) ==
    IF \E i \in 1..Len(obj.m) : obj.m[i][1] = key
    THEN obj.m[CHOOSE i \in 1..Len(obj.m) : obj.m[i][1] = key][2]
    ELSE JNull

\* x.(map[string]interface{})[key] : the assertion panics when x is not an
\* object.
AssertMapIndex(x, key) ==
    IF x.panicked \/ x.v.k # "object" THEN [v |-> JNull, panicked |-> TRUE]
    ELSE [v |-> MapIndex(x.v, key), panicked |-> FALSE]

\* image.(map[string]interface{})["large"].(string) does not panic
HasLarge(image) == image.k = "object" /\ MapIndex(image, "large").k = "string"

\* parseOtodomImages: the images and the error it returns, or the panic of an
\* unchecked type assertion, which leaves the call without a return.
parseOtodomImages(json_string) ==
    LET decoded == Decode(json_string)
        images_data == AssertMapIndex(AssertMapIndex(AssertMapIndex(AssertMapIndex(
                           [v |-> decoded.data, panicked |-> FALSE],
                           "props"), "pageProps"), "ad"), "images")
    IN  IF decoded.err THEN [images |-> <<>>, err |-> TRUE, panicked |-> FALSE]
        ELSE IF images_data.panicked \/ images_data.v.k # "array"
        THEN [images |-> <<>>, err |-> FALSE, panicked |-> TRUE]
        ELSE IF \E i \in 1..Len(images_data.v.a) : ~HasLarge(images_data.v.a[i])
        THEN [images |-> <<>>, err |-> FALSE, panicked |-> TRUE]
        ELSE [images |-> [i \in 1..Len(images_data.v.a) |->
                              MapIndex(images_data.v.a[i], "large").s],
              err |-> FALSE, panicked |-> FALSE]

\* The locals of parseOtodomOffer before the first token of the page; `err`
\* is whether the variable err holds an error, `panicked` whether the call was
\* left by a panic.
OtodomStart(offer) ==
    [offer |-> offer, isDescription |-> FALSE, isJson |-> FALSE, currentTag |-> "",
     isTagLabel |-> FALSE, isTagValue |-> FALSE, jsonText |-> "", err |-> FALSE,
     panicked |-> FALSE]

\* case html.StartTagToken of parseOtodomOffer
OtodomOnStartTag(st, t) ==
    LET isItem == t.data = "p" /\ t.class = "e1wd2yzk2 css-1airkmu"
    IN  [st EXCEPT !.isTagLabel = IF isItem /\ t.sentry = "Item" THEN TRUE ELSE @,
                   !.isTagValue = IF isItem /\ t.sentry # "Item" THEN TRUE ELSE @,
                   !.isDescription = (t.cy = "adPageAdDescription"),
                   !.isJson = (t.data = "script" /\ t.type = "application/json")]

\* The value of the parameter `tag`, assigned to the offer ("Pietro" is the
\* label "Piętro" in ASCII letters).
OtodomOnValue(offer, tag, text) ==
    IF tag = "Powierzchnia" THEN [offer EXCEPT !.Area = tag \o ": " \o text]
    ELSE IF tag = "Liczba pokoi" THEN [offer EXCEPT !.Rooms = tag \o ": " \o text]
    ELSE IF tag = "Pietro" THEN [offer EXCEPT !.Floor = tag \o ": " \o text]
    ELSE IF tag = "Czynsz"
    THEN LET v == Atoi(FindString(RemoveAll(text, " ")))
         IN  IF v.err THEN offer ELSE [offer EXCEPT !.AdditionalPayment = v.val]
    ELSE offer

\* case html.TextToken of parseOtodomOffer
OtodomOnText(st, t) ==
    LET text == TrimSpace(t.data)
        tagged == IF st.isTagLabel
                  THEN [st EXCEPT !.currentTag = TrimSuffix(text, ":"), !.isTagLabel = FALSE]
                  ELSE IF st.isTagValue /\ st.currentTag # ""
                  THEN [st EXCEPT !.offer = OtodomOnValue(@, st.currentTag, text),
                                  !.currentTag = "", !.isTagValue = FALSE]
                  ELSE st
    IN  [tagged EXCEPT
            !.offer.Description = IF st.isDescription THEN @ \o text \o "\n" ELSE @,
            !.jsonText = IF st.isJson THEN @ \o text ELSE @]

\* case html.EndTagToken of parseOtodomOffer
OtodomOnEndTag(st, t) ==
    IF t.data = "script" /\ st.isJson
    THEN LET r == parseOtodomImages(st.jsonText)
         IN  IF r.panicked THEN [st EXCEPT !.isJson = FALSE, !.panicked = TRUE]
             ELSE [st EXCEPT !.isJson = FALSE, !.offer.Images = r.images, !.err = r.err]
    ELSE IF t.data = "div" /\ st.isDescription
    THEN [st EXCEPT !.isDescription = FALSE, !.offer.Description = TrimSuffix(@, "\n")]
    ELSE st

\* One turn of the tokenizer loop of parseOtodomOffer; after a panic no
\* further turn is taken.
OtodomOnToken(st, t) ==
    IF st.panicked THEN st
    ELSE IF t.tt = "start" THEN OtodomOnStartTag(st, t)
    ELSE IF t.tt = "text" THEN OtodomOnText(st, t)
    ELSE IF t.tt = "end" THEN OtodomOnEndTag(st, t)
    ELSE st

\* The tokenizer loop of parseOtodomOffer, from the locals `st` (the test on
\* `mid` has TLC compute it before it goes on).
RECURSIVE OtodomLoop(_, _)
OtodomLoop(tokens, st) ==
    IF tokens = <<>> THEN st
    ELSE IF Len(tokens) = 1 THEN OtodomOnToken(st, tokens[1])
    ELSE LET half == Len(tokens) \div 2
             mid == OtodomLoop(SubSeq(tokens, 1, half), st)
         IN  IF mid.panicked \in BOOLEAN
             THEN OtodomLoop(SubSeq(tokens, half + 1, Len(tokens)), mid)
             ELSE mid

\* The locals of parseOtodomOffer when the call is left, `detail` being what
\* FetchHTMLPage(offer.Url) answers: an error, or the tokens of the page.
OtodomRun(offer, detail) ==
    IF detail.err THEN OtodomStart(offer) ELSE OtodomLoop(detail.page, OtodomStart(offer))

\* parseOtodomOffer: the offer it returns (the offer it holds, when it is left
\* by a panic).
parseOtodomOffer(offer, detail) == OtodomRun(offer, detail).offer

\* ParseOffer: the site strategy is picked by the prefix of the URL; with no
\* strategy the offer is returned as it is.  Title, Price, Time and Url are
\* never assigned.
\* ParseOffer handing the strategies a new offer that has the URL only.
ParseOfferFromUrl(offer, detail) ==
    IF HasPrefix(offer.Url, "https://www.olx.pl")
    THEN parseOlxOffer([EmptyOffer EXCEPT !.Url = offer.Url], detail)
    ELSE IF HasPrefix(offer.Url, "https://www.otodom.pl")
    THEN parseOtodomOffer([EmptyOffer EXCEPT !.Url = offer.Url], detail)
    ELSE offer

ParseOffer(offer, detail) ==
    IF HasPrefix(offer.Url, "https://www.olx.pl") THEN parseOlxOffer(offer, detail)
    ELSE IF HasPrefix(offer.Url, "https://www.otodom.pl") THEN parseOtodomOffer(offer, detail)
    ELSE offer

\* Whether ParseOffer is left by a panic.
ParseOfferPanics(offer, detail) ==
    /\ ~HasPrefix(offer.Url, "https://www.olx.pl")
    /\ HasPrefix(offer.Url, "https://www.otodom.pl")
    /\ OtodomRun(offer, detail).panicked

(***************************************************************************)
(* Detail pages.                                                           *)
(***************************************************************************)
\* An element with a text in it ("" for no text).
Element(start, text) == <<start>> \o TextTokens(text) \o <<EndTag(start.data)>>

\* The gallery of an offer page of olx: one img per image.
Gallery(images) ==
    [i \in 1..Len(images) |->
        [SelfClosingTag("img") EXCEPT !.class = "css-1bmvjcs", !.src = images[i]]]

\* The script of an offer page of otodom that carries the page's data.
JsonScript(text) == Element([StartTag("script") EXCEPT !.type = "application/json"], text)

\* The document that lists `images`.
JsonOfImages(images) == IF images = <<>> THEN JsonDocs[2].text ELSE JsonDocs[1].text

\* The parameter paragraphs of an offer page of olx.
OlxParameter(text) == Element([StartTag("p") EXCEPT !.class = "css-5l1a1j"], text)

\* A parameter of an offer page of otodom: the paragraph of its label and the
\* paragraph of its value; nothing when the page does not show it.
OtodomParameter(label, value) ==
    IF value = "" THEN <<>>
    ELSE Element([StartTag("p") EXCEPT !.class = "e1wd2yzk2 css-1airkmu", !.sentry = "Item"],
                 label \o ":")
             \o Element([StartTag("p") EXCEPT !.class = "e1wd2yzk2 css-1airkmu"], value)

\* The detail pages of the model.  A page is described by the site it is of
\* and by what it shows: a description, the surcharge, the area, the number
\* of rooms, the images of its gallery (olx) and the text of its JSON script
\* (otodom); "" for a part the page does not show.
OlxDetailPages ==
    [site : {"olx"}, description : {"", "Jasne mieszkanie"},
     rent : {"", "Czynsz (dodatkowo): 450 zl"}, area : {"", "Powierzchnia: 38 m2"},
     rooms : {"", "Liczba pokoi: 2 pokoje"}, images : ImageLists, json : {""}]

OtodomDetailPages ==
    [site : {"otodom"}, description : {"", "Jasne mieszkanie"}, rent : {"", "1 450 zl"},
     area : {"", "38 m2"}, rooms : {""}, images : {<<>>}, json : JsonTexts]

DetailPages == OlxDetailPages \cup OtodomDetailPages

\* The tokens of a detail page.
DetailTokens(d) ==
    IF d.site = "olx"
    THEN <<StartTag("div")>>
             \o Element([StartTag("div") EXCEPT !.class = "css-19duwlz"], d.description)
             \o OlxParameter(d.rent) \o OlxParameter(d.area) \o OlxParameter(d.rooms)
             \o Gallery(d.images) \o <<EndTag("div")>>
    ELSE <<StartTag("div")>>
             \o OtodomParameter("Czynsz", d.rent) \o OtodomParameter("Powierzchnia", d.area)
             \o Element([StartTag("div") EXCEPT !.cy = "adPageAdDescription"], d.description)
             \o JsonScript(d.json) \o <<EndTag("div")>>

\* What FetchHTMLPage answers for a detail page: an error, or the page.
Fetches ==
    {[err |-> TRUE, shown |-> CHOOSE d \in DetailPages : d.description = "" /\ d.site = "olx"
                                  /\ d.rent = "" /\ d.area = "" /\ d.rooms = ""
                                  /\ d.images = <<>>]}
        \cup [err : {FALSE}, shown : DetailPages]

FetchedDetail(fetch) ==
    [err |-> fetch.err, page |-> IF fetch.err THEN <<>> ELSE DetailTokens(fetch.shown)]

\* The offers ParseOffer is called with: an offer as a listing page gives it,
\* and an offer all of whose fields are set, each with a URL of olx, of otodom
\* and of neither.
OfferUrls == {OlxUrl, OtodomUrl, "https://example.com/oferta/c"}

EnrichableOffers ==
    {[ListedOffer("Kawalerka", 1700, "16:30", url) EXCEPT !.Location = "Gdansk"] :
        url \in OfferUrls}
      \cup {[Title |-> "Pokoj & kuchnia", Price |-> 2500, Location |-> "Szczecin, Gumience",
             Time |-> "01:45", Url |-> url, AdditionalPayment |-> 300,
             Description |-> "Stary opis", Rooms |-> "Liczba pokoi: 1", Area |-> "Powierzchnia: 20 m2",
             Floor |-> "Poziom: 2", Images |-> <<"https://img/0.jpg">>] : url \in OfferUrls}

\* The outcome of fetching the detail page of an offer in the pipeline: a
\* fetch error, or a page that shows the images of one image list, as a
\* gallery and in its JSON script.
DetailResults ==
    {[err |-> TRUE, page |-> <<>>]}
        \cup {[err |-> FALSE, page |-> Gallery(images) \o JsonScript(JsonOfImages(images))] :
                 images \in ImageLists}

(***************************************************************************)
(* telegrambot: processPriceStr, and parser.CreateUrl.                     *)
(***************************************************************************)
\* strings.HasSuffix
HasSuffix(s, suffix) ==
    Len(s) >= Len(suffix) /\ SubSeq(s, Len(s) - Len(suffix) + 1, Len(s)) = suffix

\* A return of processPriceStr; `err` is the message of the error, "" for nil.
PriceResult(minPrice, maxPrice, err) ==
    [minPrice |-> minPrice, maxPrice |-> maxPrice, err |-> err]

PriceRangeUnordered(parts) ==
    LET lo == Atoi(TrimSpace(parts[1]))
        hi == Atoi(TrimSpace(parts[2]))
        minPrice == IF parts[1] # "" THEN lo.val ELSE 0
        maxPrice == IF parts[2] # "" THEN hi.val ELSE 0
    IN  IF Len(parts) # 2 THEN PriceResult(0, 0, "invalid price range format")
        ELSE IF parts[1] # "" /\ lo.err THEN PriceResult(0, 0, "invalid minimum price")
        ELSE IF parts[1] # "" /\ lo.val < 0
        THEN PriceResult(0, 0, "minimum price cannot be negative")
        ELSE IF parts[2] # "" /\ hi.err THEN PriceResult(0, 0, "invalid maximum price")
        ELSE IF parts[2] # "" /\ hi.val <= 0
        THEN PriceResult(0, 0, "maximum price must be positive")
        ELSE PriceResult(minPrice, maxPrice, "")

\* The range format of processPriceStr, `parts` being the text split at "-".
PriceRange(parts) ==
    LET lo == Atoi(TrimSpace(parts[1]))
        hi == Atoi(TrimSpace(parts[2]))
        minPrice == IF parts[1] # "" THEN lo.val ELSE 0
        maxPrice == IF parts[2] # "" THEN hi.val ELSE 0
    IN  IF Len(parts) # 2 THEN PriceResult(0, 0, "invalid price range format")
        ELSE IF parts[1] # "" /\ lo.err THEN PriceResult(0, 0, "invalid minimum price")
        ELSE IF parts[1] # "" /\ lo.val < 0
        THEN PriceResult(0, 0, "minimum price cannot be negative")
        ELSE IF parts[2] # "" /\ hi.err THEN PriceResult(0, 0, "invalid maximum price")
        ELSE IF parts[2] # "" /\ hi.val <= 0
        THEN PriceResult(0, 0, "maximum price must be positive")
        ELSE IF minPrice > 0 /\ maxPrice > 0 /\ minPrice > maxPrice
        THEN PriceResult(0, 0, "minimum price cannot be higher than maximum price")
        ELSE PriceResult(minPrice, maxPrice, "")

processPriceStrBareIsMinimum(price_range_str) ==
    LET s == TrimSpace(price_range_str)
        rest == SubSeq(s, 2, Len(s))
        minPrice == Atoi(TrimSpace(TrimSuffix(s, "+")))
        maxPrice == Atoi(TrimSpace(rest))
        price == Atoi(s)
    IN  IF HasSuffix(s, "+")
        THEN IF minPrice.err THEN PriceResult(0, 0, "invalid minimum price format")
             ELSE IF minPrice.val < 0 THEN PriceResult(0, 0, "minimum price cannot be negative")
             ELSE PriceResult(minPrice.val, 0, "")
        ELSE IF HasPrefix(s, "-") /\ ~Contains(rest, "-")
        THEN IF ~Atoi(rest).err /\ Atoi(rest).val < 0
             THEN PriceResult(0, 0, "maximum price must be positive")
             ELSE IF maxPrice.err THEN PriceResult(0, 0, "invalid maximum price format")
             ELSE IF maxPrice.val <= 0 THEN PriceResult(0, 0, "maximum price must be positive")
             ELSE PriceResult(0, maxPrice.val, "")
        ELSE IF Contains(s, "-") THEN PriceRange(Split(s, "-"))
        ELSE IF ~price.err
        THEN IF price.val <= 0 THEN PriceResult(0, 0, "price must be positive")
             ELSE PriceResult(price.val, 0, "")
        ELSE PriceResult(0, 0, "invalid price format")

processPriceStr(price_range_str) ==
    LET s == TrimSpace(price_range_str)
        rest == SubSeq(s, 2, Len(s))
        minPrice == Atoi(TrimSpace(TrimSuffix(s, "+")))
        maxPrice == Atoi(TrimSpace(rest))
        price == Atoi(s)
    IN  IF HasSuffix(s, "+")
        THEN IF minPrice.err THEN PriceResult(0, 0, "invalid minimum price format")
             ELSE IF minPrice.val < 0 THEN PriceResult(0, 0, "minimum price cannot be negative")
             ELSE PriceResult(minPrice.val, 0, "")
        ELSE IF HasPrefix(s, "-") /\ ~Contains(rest, "-")
        THEN IF ~Atoi(rest).err /\ Atoi(rest).val < 0
             THEN PriceResult(0, 0, "maximum price must be positive")
             ELSE IF maxPrice.err THEN PriceResult(0, 0, "invalid maximum price format")
             ELSE IF maxPrice.val <= 0 THEN PriceResult(0, 0, "maximum price must be positive")
             ELSE PriceResult(0, maxPrice.val, "")
        ELSE IF Contains(s, "-") THEN PriceRange(Split(s, "-"))
        ELSE IF ~price.err
        THEN IF price.val <= 0 THEN PriceResult(0, 0, "price must be positive")
             ELSE PriceResult(0, price.val, "")
        ELSE PriceResult(0, 0, "invalid price format")

\* The texts a user sends as price range: every text of up to MaxTextLen
\* characters over a small alphabet, the bounds below in each format, with
\* and without spaces around them, and the inputs of TestProcessPriceStr.
BoundTexts == {"", "0", "7", "50", "1000", "2000", "abc", "1 0", "+5", "2147483648"}

PriceInputs ==
    TextsUpTo({"0", "5", "-", "+", " ", "a"}, MaxTextLen)
      \cup {pad \o a \o pad \o sep \o pad \o b \o pad :
               pad \in {"", " "}, a \in BoundTexts, sep \in {"-", "+"}, b \in BoundTexts}
      \cup {" 2000 ", "1000-2000-3000", "-500+", "-50-1000", "abc-def", "1500+", "-abc",
            "1000000+", "1250000-2147483647"}

\* strconv.Itoa, for n >= 0
RECURSIVE Itoa(_)
Itoa(n) == IF n < 10 THEN Digits[n + 1] ELSE Itoa(n \div 10) \o Digits[(n % 10) + 1]

\* The text without the zeros at its end.
RECURSIVE TrimZeros(_)
TrimZeros(s) ==
    IF s # "" /\ SubSeq(s, Len(s), Len(s)) = "0" THEN TrimZeros(SubSeq(s, 1, Len(s) - 1)) ELSE s

\* fmt's %g of float64(n), for an integer n >= 0: the decimal digits below
\* a million, and from there on the shortest mantissa with an exponent of at
\* least two digits.
FormatG(n) ==
    LET digits == Itoa(n)
        exp == Len(digits) - 1
        fraction == TrimZeros(SubSeq(digits, 2, Len(digits)))
    IN  IF exp < 6 THEN digits
        ELSE SubSeq(digits, 1, 1) \o (IF fraction = "" THEN "" ELSE "." \o fraction)
                 \o "e+" \o TwoDigits(exp)

\* "search[filter_enum_rooms][i]=bedroom" for the bedrooms from the i-th on
\* (i counted from 0), joined by "&".
RECURSIVE RoomValues(_, _)
RoomValues(bedrooms, i) ==
    IF i >= Len(bedrooms) THEN ""
    ELSE (IF i = 0 THEN "" ELSE "&") \o "search[filter_enum_rooms][" \o Itoa(i) \o "]="
             \o bedrooms[i + 1] \o RoomValues(bedrooms, i + 1)

\* parser.SearchTerm as newSearchProcessPrice fills it.
SearchTerm(city, minPrice, maxPrice) ==
    [Location |-> city, Price_min |-> minPrice, Price_max |-> maxPrice, Bedrooms |-> <<>>,
     Size_min |-> 0, Size_max |-> 0]

\* "&key=%g" when the value is not 0.
Filter(key, value) == IF value # 0 THEN "&search[" \o key \o "]=" \o FormatG(value) ELSE ""

CreateUrlFromImpliesTo(searchTerm) ==
    IF searchTerm.Location = ""
    THEN [url |-> "", err |-> "No location specified in search term."]
    ELSE [url |-> "https://www.olx.pl/nieruchomosci/mieszkania/wynajem/"
                      \o searchTerm.Location \o "/q-mieszkanie/?search[order]=created_at:desc"
                      \o Filter("filter_float_price:from", searchTerm.Price_min)
                      \o (IF searchTerm.Price_min # 0
                          THEN "&search[filter_float_price:to]=" \o FormatG(searchTerm.Price_max)
                          ELSE "")
                      \o Filter("filter_float_m:from", searchTerm.Size_min)
                      \o Filter("filter_float_m:to", searchTerm.Size_max)
                      \o (IF Len(searchTerm.Bedrooms) > 0
                          THEN "&" \o RoomValues(searchTerm.Bedrooms, 0) ELSE ""),
          err |-> ""]

\* parser.CreateUrl; `err` is the message of the error, "" for nil.
CreateUrl(searchTerm) ==
    IF searchTerm.Location = ""
    THEN [url |-> "", err |-> "No location specified in search term."]
    ELSE [url |-> "https://www.olx.pl/nieruchomosci/mieszkania/wynajem/"
                      \o searchTerm.Location \o "/q-mieszkanie/?search[order]=created_at:desc"
                      \o Filter("filter_float_price:from", searchTerm.Price_min)
                      \o Filter("filter_float_price:to", searchTerm.Price_max)
                      \o Filter("filter_float_m:from", searchTerm.Size_min)
                      \o Filter("filter_float_m:to", searchTerm.Size_max)
                      \o (IF Len(searchTerm.Bedrooms) > 0
                          THEN "&" \o RoomValues(searchTerm.Bedrooms, 0) ELSE ""),
          err |-> ""]

\* The city of a new search: the code of a city of the bot's list, or "" when
\* the user's state holds none.
CityCodes == {"", "poznan", "warszawa"}

(***************************************************************************)
(* database: the offers table (a bag of rows) and the searches table (rows *)
(* in rowid order).                                                        *)
(***************************************************************************)
OfferRow(offer, userID) ==
    [Title |-> offer.Title, Price |-> offer.Price, Time |-> offer.Time,
     Url |-> offer.Url, UserID |-> userID]

OfferExistsWrongArg(db, offer, userID) ==
    \E r \in BagToSet(db) :
        r.Title = offer.Url /\ r.Price = offer.Price /\ r.UserID = userID

OfferExistsAnyUser(db, offer, userID) ==
    \E r \in BagToSet(db) : r.Title = offer.Title /\ r.Price = offer.Price

\* OfferExists asking for the offer's URL in place of its title and price.
OfferExistsByUrl(db, offer, userID) ==
    \E r \in BagToSet(db) : r.Url = offer.Url /\ r.UserID = userID

\* OfferExists asking for the offer's time as well.
OfferExistsWithTime(db, offer, userID) ==
    \E r \in BagToSet(db) :
        r.Title = offer.Title /\ r.Price = offer.Price /\ r.UserID = userID
            /\ r.Time = offer.Time

\* SELECT EXISTS(SELECT 1 FROM offers WHERE title = ? AND price = ? AND user_id = ?)
OfferExists(db, offer, userID) ==
    \E r \in BagToSet(db) :
        r.Title = offer.Title /\ r.Price = offer.Price /\ r.UserID = userID

AddOfferNoCheck(db, offer, userID, queryErr, execErr) ==
    IF queryErr \/ execErr THEN [db |-> db, err |-> TRUE]
    ELSE [db |-> db (+) SetToBag({OfferRow(offer, userID)}), err |-> FALSE]

\* AddOffer: the existence query, then the INSERT.  queryErr and execErr are
\* the store's failures of the query and of Prepare/Exec.
AddOffer(db, offer, userID, queryErr, execErr) ==
    IF queryErr THEN [db |-> db, err |-> TRUE]
    ELSE IF OfferExists(db, offer, userID) THEN [db |-> db, err |-> FALSE]
    ELSE IF execErr THEN [db |-> db, err |-> TRUE]
    ELSE [db |-> db (+) SetToBag({OfferRow(offer, userID)}), err |-> FALSE]

\* SELECT EXISTS(SELECT 1 FROM searches WHERE UserID = ? AND url = ?)
\* searchExists looking at the rows of the other users only.
searchExistsOfOthers(db, userID, url) ==
    \E i \in 1..Len(db) : db[i].UserID # userID /\ db[i].URL = url

searchExists(db, userID, url) ==
    \E i \in 1..Len(db) : db[i].UserID = userID /\ db[i].URL = url

\* DELETE FROM searches WHERE id = ?
DeleteSearchRows(db, id) == SelectSeq(db, LAMBDA s : s.ID # id)

(***************************************************************************)
(* telegrambot: the notification condition and what a send does to the     *)
(* offers table.                                                           *)
(***************************************************************************)
\* len(offer.Time) > 7 && offer.Time[:7] == "Dzisiaj"
IsPostedToday(offer) ==
    Len(offer.Time) > 7 /\ SubSeq(offer.Time, 1, 7) = "Dzisiaj"

StoreAfterSendRollback(db, offer, userID, sent) ==
    IF sent THEN db ELSE db (-) SetToBag({OfferRow(offer, userID)})

\* sendOfferToUser / sendMessage: a failed bot.Send is logged; the offers
\* table is not touched.
StoreAfterSend(db, offer, userID, sent) == db

(***************************************************************************)
(* telegrambot: the drafts of new searches (userStates).                   *)
(***************************************************************************)
\* userStates[userID] = UserNewSearch{...}
PutDraft(states, userID, city) ==
    [u \in DOMAIN states \cup {userID} |->
        IF u = userID THEN [user_id |-> userID, state |-> "search|price", city |-> city]
        ELSE states[u]]

\* delete(userStates, userID)
DeleteDraft(states, userID) == [u \in DOMAIN states \ {userID} |-> states[u]]

\* newSearchProcessPrice asking again for the price after a text it could not
\* read, the draft kept.
newSearchProcessPriceRetry(states, db, id, userID, text, dbErr) ==
    LET price == processPriceStr(text)
        created == CreateUrl(SearchTerm(states[userID].city, price.minPrice, price.maxPrice))
    IN  IF price.err # ""
        THEN [userStates |-> states, searchDb |-> db, nextId |-> id]
        ELSE IF created.err # ""
        THEN [userStates |-> DeleteDraft(states, userID), searchDb |-> db, nextId |-> id]
        ELSE IF dbErr \/ searchExists(db, userID, created.url)
        THEN [userStates |-> DeleteDraft(states, userID), searchDb |-> db, nextId |-> id]
        ELSE [userStates |-> DeleteDraft(states, userID),
              searchDb |-> Append(db, [ID |-> id, UserID |-> userID, URL |-> created.url]),
              nextId |-> id + 1]

\* newSearchProcessPrice for the message `text` of the user: the map, the
\* searches table and its next row id afterwards.  dbErr is a failure of the
\* store inside AddSearch.
newSearchProcessPrice(states, db, id, userID, text, dbErr) ==
    LET price == processPriceStr(text)
        created == CreateUrl(SearchTerm(states[userID].city, price.minPrice, price.maxPrice))
    IN  IF price.err # ""
        THEN [userStates |-> DeleteDraft(states, userID), searchDb |-> db, nextId |-> id]
        ELSE IF created.err # ""
        THEN [userStates |-> DeleteDraft(states, userID), searchDb |-> db, nextId |-> id]
        ELSE IF dbErr \/ searchExists(db, userID, created.url)
        THEN [userStates |-> DeleteDraft(states, userID), searchDb |-> db, nextId |-> id]
        ELSE [userStates |-> DeleteDraft(states, userID),
              searchDb |-> Append(db, [ID |-> id, UserID |-> userID, URL |-> created.url]),
              nextId |-> id + 1]

\* The draft of the user, "none" when the map has no entry.
DraftOf(states, userID) == IF userID \in DOMAIN states THEN states[userID].city ELSE "none"

\* Texts of the messages a user sends.
MessageTexts == {"1000-2000", "2000-1000", "abc", "/start"}

(***************************************************************************)
(* State.                                                                  *)
(***************************************************************************)
VARIABLES
    searchDb,     \* searches table: sequence of [ID, UserID, URL] in rowid order
    nextId,       \* next value of the AUTOINCREMENT id of the searches table
    offersDb,     \* offers table: bag of OfferRow
    pc,           \* position of the polling goroutine
    passNo,       \* number of processAllOffersFromSearch calls made so far
    sweep,        \* searches of the current outer iteration not yet finished
    offers,       \* offers of the current pass not yet finished
    offer,        \* the loop variable `offer` of processAllOffersFromSearch
    crashCause,   \* the call whose error was passed to panic, or "none"
    notifyLog,    \* bag of [Title, Price, UserID] handed to sendOfferToUser
    notifyFailed, \* the sends that returned an error: [key, pass]
    pass,         \* history of the current pass
    it,           \* history of the current loop iteration
    fn,           \* the parser function last applied, or "none"
    arg,          \* the argument it was applied to
    ret,          \* what it returned
    userStates    \* the map userStates of the request handler: user -> draft

vars == <<searchDb, nextId, offersDb, pc, passNo, sweep, offers, offer,
          crashCause, notifyLog, notifyFailed, pass, it, fn, arg, ret,
          userStates>>

\* The call record of the parser functions.
parserVars == <<fn, arg, ret>>

\* The state of the bot: the two tables, the polling goroutine, its history.
botVars == <<searchDb, nextId, offersDb, pc, passNo, sweep, offers, offer,
             crashCause, notifyLog, notifyFailed, pass, it>>

pollerVars == <<pc, passNo, sweep, offers, offer, crashCause, pass, it>>

NoPass == [titled |-> FALSE, touched |-> FALSE, gone |-> FALSE, fetchErr |-> FALSE]
NoIt == [done |-> FALSE, absent |-> FALSE, persisted |-> FALSE,
         notified |-> FALSE, skipped |-> FALSE, persistErr |-> FALSE]

OfferKey(o, userID) == [Title |-> o.Title, Price |-> o.Price, UserID |-> userID]

\* The search the current pass works on.
search == Head(sweep)

Init ==
    /\ searchDb = <<>>
    /\ nextId = 1
    /\ offersDb = EmptyBag
    /\ pc = "getSearches"
    /\ passNo = 0
    /\ sweep = <<>>
    /\ offers = <<>>
    /\ offer = EmptyOffer
    /\ crashCause = "none"
    /\ notifyLog = EmptyBag
    /\ notifyFailed = {}
    /\ pass = NoPass
    /\ it = NoIt
    /\ fn = "none"
    /\ arg = <<>>
    /\ ret = <<>>
    /\ userStates = <<>>

(***************************************************************************)
(* Request handler (the update loop of StartBot).                          *)
(***************************************************************************)
\* newSearchProcessPrice -> database.AddSearch
AddSearch(userID, url) ==
    /\ UNCHANGED <<parserVars, userStates>>
    /\ pc # "crashed"
    /\ nextId <= MaxSearchId
    /\ IF searchExists(searchDb, userID, url)
       THEN UNCHANGED <<searchDb, nextId>>
       ELSE /\ searchDb' = Append(searchDb, [ID |-> nextId, UserID |-> userID, URL |-> url])
            /\ nextId' = nextId + 1
    /\ UNCHANGED <<offersDb, notifyLog, notifyFailed>>
    /\ UNCHANGED pollerVars

\* The handler removing, with the search, the offers stored for its user.
DeleteSearchAndOffers(id) ==
    /\ UNCHANGED <<parserVars, userStates>>
    /\ pc # "crashed"
    /\ \E i \in 1..Len(searchDb) :
        /\ searchDb[i].ID = id
        /\ offersDb' = [r \in {q \in BagToSet(offersDb) : q.UserID # searchDb[i].UserID}
                          |-> CopiesIn(r, offersDb)]
    /\ searchDb' = DeleteSearchRows(searchDb, id)
    /\ UNCHANGED <<nextId, notifyLog, notifyFailed>>
    /\ UNCHANGED pollerVars

\* removeSearchFromDatabase -> database.DeleteSearch
DeleteSearch(id) ==
    /\ UNCHANGED <<parserVars, userStates>>
    /\ pc # "crashed"
    /\ \E i \in 1..Len(searchDb) : searchDb[i].ID = id
    /\ searchDb' = DeleteSearchRows(searchDb, id)
    /\ UNCHANGED <<nextId, offersDb, notifyLog, notifyFailed>>
    /\ UNCHANGED pollerVars

(***************************************************************************)
(* Polling goroutine.                                                      *)
(***************************************************************************)
\* panic(err) in the polling goroutine ends the process: the goroutine's
\* locals are gone, the tables stay as they are.
Panic(cause, passFlags, itFlags) ==
    /\ pc' = "crashed"
    /\ crashCause' = cause
    /\ sweep' = <<>>
    /\ offers' = <<>>
    /\ offer' = EmptyOffer
    /\ pass' = passFlags
    /\ it' = itFlags

\* processAllOffersFromSearch starting over with the page after every offer.
AfterOfferRefetch(rest) == IF rest = <<>> THEN "sleep" ELSE "fetch"

\* The position after the body of `for _, offer := range offers` has run for
\* the head of `rest`.
AfterOffer(rest) == IF rest = <<>> THEN "sleep" ELSE "exists"

\* parseOffers: searches, err := database.GetAllSearches(search_db)
GetAllSearches ==
    /\ UNCHANGED <<parserVars, userStates>>
    /\ pc = "getSearches"
    /\ \E err \in BOOLEAN :
        IF err
        THEN Panic("GetAllSearches", NoPass, NoIt)
        ELSE /\ sweep' = searchDb
             /\ pc' = IF searchDb = <<>> THEN "getSearches" ELSE "fetch"
             /\ pass' = NoPass
             /\ it' = NoIt
             /\ UNCHANGED <<offers, offer, crashCause>>
    /\ UNCHANGED <<searchDb, nextId, offersDb, passNo, notifyLog, notifyFailed>>

\* processAllOffersFromSearch: FetchHTMLPage, then ParseHtml
FetchListing ==
    /\ UNCHANGED <<parserVars, userStates>>
    /\ pc = "fetch"
    /\ passNo < MaxPasses
    /\ passNo' = passNo + 1
    /\ \/ Panic("FetchHTMLPage", [NoPass EXCEPT !.fetchErr = TRUE], NoIt)
       \/ \E frags \in Pages :
            /\ offers' = ParseHtml(frags)
            /\ pass' = [NoPass EXCEPT
                          !.titled = \E i \in 1..Len(frags) : frags[i].Title # ""]
            /\ pc' = AfterOffer(offers')
            /\ it' = NoIt
            /\ UNCHANGED <<sweep, offer, crashCause>>
    /\ UNCHANGED <<searchDb, nextId, offersDb, notifyLog, notifyFailed>>

\* exists, err := database.OfferExists(offers_db, offer, search.UserID)
CheckOfferExists ==
    /\ UNCHANGED <<parserVars, userStates>>
    /\ pc = "exists"
    /\ \E err \in BOOLEAN :
        IF err
        THEN Panic("OfferExists", NoPass, NoIt)
        ELSE /\ offer' = Head(offers)
             /\ pass' = [pass EXCEPT !.gone =
                           @ \/ ~(\E i \in 1..Len(searchDb) : searchDb[i].ID = search.ID)]
             /\ IF OfferExists(offersDb, Head(offers), search.UserID)
                THEN /\ it' = [NoIt EXCEPT !.done = TRUE, !.skipped = TRUE]
                     /\ offers' = Tail(offers)
                     /\ pc' = AfterOffer(Tail(offers))
                ELSE /\ it' = [NoIt EXCEPT !.absent = TRUE]
                     /\ pc' = "enrich"
                     /\ UNCHANGED offers
             /\ UNCHANGED <<sweep, crashCause>>
    /\ UNCHANGED <<searchDb, nextId, offersDb, passNo, notifyLog, notifyFailed>>

\* offer = parser.ParseOffer(offer)
EnrichOffer ==
    /\ UNCHANGED <<parserVars, userStates>>
    /\ pc = "enrich"
    /\ \E detail \in DetailResults : offer' = ParseOffer(offer, detail)
    /\ pass' = [pass EXCEPT !.touched = @ \/ HasStrategy(offer)]
    /\ pc' = "persist"
    /\ UNCHANGED <<searchDb, nextId, offersDb, passNo, sweep, offers, crashCause,
                   notifyLog, notifyFailed, it>>

\* processAllOffersFromSearch looking the search up once more right before
\* AddOffer and leaving the offer alone when the search is gone.
PersistOfferIfSearchKept ==
    /\ UNCHANGED <<parserVars, userStates>>
    /\ pc = "persist"
    /\ IF \E i \in 1..Len(searchDb) : searchDb[i].ID = search.ID
       THEN \E queryErr \in BOOLEAN, execErr \in BOOLEAN :
            LET res == AddOffer(offersDb, offer, search.UserID, queryErr, execErr)
            IN  /\ offersDb' = res.db
                /\ IF res.err
                   THEN Panic("AddOffer", NoPass, [NoIt EXCEPT !.persistErr = TRUE])
                   ELSE /\ pc' = "notify"
                        /\ it' = [it EXCEPT !.persisted = (res.db # offersDb)]
                        /\ pass' = [pass EXCEPT !.touched = @ \/ (res.db # offersDb)]
                        /\ UNCHANGED <<sweep, offers, offer, crashCause>>
       ELSE /\ offers' = Tail(offers)
            /\ pc' = AfterOffer(Tail(offers))
            /\ it' = [it EXCEPT !.done = TRUE]
            /\ UNCHANGED <<offersDb, sweep, offer, crashCause, pass>>
    /\ UNCHANGED <<searchDb, nextId, passNo, notifyLog, notifyFailed>>

\* err := database.AddOffer(offers_db, offer, search.UserID)
PersistOffer ==
    /\ UNCHANGED <<parserVars, userStates>>
    /\ pc = "persist"
    /\ \E queryErr \in BOOLEAN, execErr \in BOOLEAN :
        LET res == AddOffer(offersDb, offer, search.UserID, queryErr, execErr)
        IN  /\ offersDb' = res.db
            /\ IF res.err
               THEN Panic("AddOffer", NoPass, [NoIt EXCEPT !.persistErr = TRUE])
               ELSE /\ pc' = "notify"
                    /\ it' = [it EXCEPT !.persisted = (res.db # offersDb)]
                    /\ pass' = [pass EXCEPT !.touched = @ \/ (res.db # offersDb)]
                    /\ UNCHANGED <<sweep, offers, offer, crashCause>>
    /\ UNCHANGED <<searchDb, nextId, passNo, notifyLog, notifyFailed>>

\* if len(offer.Time) > 7 && offer.Time[:7] == "Dzisiaj" { sendOfferToUser(...) }
NotifyOffer ==
    /\ UNCHANGED <<parserVars, userStates>>
    /\ pc = "notify"
    /\ IF IsPostedToday(offer)
       THEN \E sent \in BOOLEAN :
            /\ notifyLog' = notifyLog (+) SetToBag({OfferKey(offer, search.UserID)})
            /\ notifyFailed' = IF sent THEN notifyFailed
                               ELSE notifyFailed \cup
                                    {[key |-> OfferKey(offer, search.UserID), pass |-> passNo]}
            /\ offersDb' = StoreAfterSend(offersDb, offer, search.UserID, sent)
            /\ it' = [it EXCEPT !.done = TRUE, !.notified = TRUE]
            /\ pass' = [pass EXCEPT !.touched = TRUE]
       ELSE /\ it' = [it EXCEPT !.done = TRUE]
            /\ UNCHANGED <<notifyLog, notifyFailed, offersDb, pass>>
    /\ offers' = Tail(offers)
    /\ pc' = AfterOffer(Tail(offers))
    /\ UNCHANGED <<searchDb, nextId, passNo, sweep, offer, crashCause>>

\* parseOffers: time.Sleep(10 * time.Second), then the next search or the
\* next outer iteration
SleepAfterSearch ==
    /\ UNCHANGED <<parserVars, userStates>>
    /\ pc = "sleep"
    /\ sweep' = Tail(sweep)
    /\ pc' = IF Tail(sweep) = <<>> THEN "getSearches" ELSE "fetch"
    /\ offer' = EmptyOffer
    /\ pass' = NoPass
    /\ it' = NoIt
    /\ UNCHANGED <<searchDb, nextId, offersDb, passNo, offers, crashCause,
                   notifyLog, notifyFailed>>

Next ==
    \/ \E u \in Users, url \in SearchUrls : AddSearch(u, url)
    \/ \E id \in 1..MaxSearchId : DeleteSearch(id)
    \/ GetAllSearches
    \/ FetchListing
    \/ CheckOfferExists
    \/ EnrichOffer
    \/ PersistOffer
    \/ NotifyOffer
    \/ SleepAfterSearch

Spec == Init /\ [][Next]_vars

(***************************************************************************)
(* The parser's functions, applied to the inputs above.                    *)
(***************************************************************************)
\* offer.Url = normalizeURL(url, config.BaseURL)
CallNormalizeURL ==
    /\ fn = "none"
    /\ \E url \in Hrefs :
        /\ fn' = "normalizeURL"
        /\ arg' = url
        /\ ret' = normalizeURL(url, BaseURL)
    /\ UNCHANGED <<botVars, userStates>>

\* price := extractPrice(text, config.PricePattern)
CallExtractPrice ==
    /\ fn = "none"
    /\ \E text \in PriceTexts :
        /\ fn' = "extractPrice"
        /\ arg' = text
        /\ ret' = extractPrice(text)
    /\ UNCHANGED <<botVars, userStates>>

\* location, timeStr := extractLocationAndTime(text, config)
CallExtractLocationAndTime ==
    /\ fn = "none"
    /\ \E text \in LocationTexts :
        /\ fn' = "extractLocationAndTime"
        /\ arg' = text
        /\ ret' = extractLocationAndTime(text)
    /\ UNCHANGED <<botVars, userStates>>

\* offer := extractOffer(offerContent)
CallExtractOffer ==
    /\ fn = "none"
    /\ \E c \in Cards :
        /\ fn' = "extractOffer"
        /\ arg' = c
        /\ ret' = extractOffer(CardTokens(c))
    /\ UNCHANGED <<botVars, userStates>>

\* offers := parser.ParseHtml(page)
\* extractOffer on a fragment that holds the markup of the card `first`
\* followed by that of the card `second`, token by token.
CallExtractOfferTrace ==
    /\ fn = "none"
    /\ \E c \in PageCards, d \in PageCards :
        LET tokens == CardTokens(c) \o CardTokens(d)
        IN  /\ ~Contains(FragmentText(tokens), FeaturedMarker)
            /\ fn' = "extractOffer(trace)"
            /\ arg' = [first |-> c, second |-> d, tokens |-> tokens]
            /\ ret' = ExtractTrace(tokens, [st |-> ExtractStart, trace |-> <<>>]).trace
    /\ UNCHANGED <<botVars, userStates>>

CallParseHtml ==
    /\ fn = "none"
    /\ \E cards \in CardPages :
        /\ fn' = "ParseHtml"
        /\ arg' = cards
        /\ ret' = ParseHtml(ExtractedOffers(OfferContents(PageTokens(cards))))
    /\ UNCHANGED <<botVars, userStates>>

\* offer = parser.ParseOffer(offer)
CallParseHtmlMarkup ==
    /\ fn = "none"
    /\ \E m \in Markups :
        LET tokens == MarkupTokens(m.cards, m.nested)
            contents == OfferContents(SubSeq(tokens, 1, m.cut))
        IN  /\ m.nested \subseteq 1..Len(m.cards)
            /\ m.cut <= Len(tokens)
            /\ fn' = "ParseHtml(markup)"
            /\ arg' = m
            /\ ret' = [contents |-> contents, offers |-> ParseHtml(ExtractedOffers(contents))]
    /\ UNCHANGED <<botVars, userStates>>

\* The configurations extractOfferWithConfig is applied to: OLXConfig, the
\* one of TestExtractOfferWithCustomConfig, and OLXConfig with the title in a
\* p or with the price or the location in any h4.
ExtractorConfigs ==
    {OLXConfig,
     [TitleSelector |-> [Tag |-> "h3", Attribute |-> "", Value |-> ""],
      PriceSelector |-> [Tag |-> "span", Attribute |-> "class", Value |-> "price"],
      LocationSelector |-> [Tag |-> "div", Attribute |-> "class", Value |-> "location"]],
     [OLXConfig EXCEPT !.TitleSelector.Tag = "p"],
     [OLXConfig EXCEPT !.PriceSelector = [Tag |-> "h4", Attribute |-> "", Value |-> ""]],
     [OLXConfig EXCEPT !.LocationSelector = [Tag |-> "h4", Attribute |-> "", Value |-> ""]]}

\* The case html.StartTagToken of extractOfferWithConfig, for one start tag.
CallSelectContext ==
    /\ fn = "none"
    /\ \E config \in ExtractorConfigs, inLink \in BOOLEAN, current \in {"", "title", "price"},
          tag \in {"h4", "h3", "p", "span", "div"},
          testid \in {"", "ad-price", "location-date", "adCard-featured"},
          cy \in {"", "ad-card-title"}, class \in {"", "price", "location"} :
        LET t == [StartTag(tag) EXCEPT !.testid = testid, !.cy = cy, !.class = class]
        IN  /\ fn' = "extractOfferWithConfig(start tag)"
            /\ arg' = [config |-> config, isInLink |-> inLink, currentContext |-> current,
                       token |-> t]
            /\ ret' = SelectContext(current, t, inLink, config)
    /\ UNCHANGED <<botVars, userStates>>

CallParseOffer ==
    /\ fn = "none"
    /\ \E o \in EnrichableOffers, fetch \in Fetches :
        /\ fn' = "ParseOffer"
        /\ arg' = [offer |-> o, fetch |-> fetch]
        /\ ret' = [offer |-> ParseOffer(o, FetchedDetail(fetch)),
                   panicked |-> ParseOfferPanics(o, FetchedDetail(fetch))]
    /\ UNCHANGED <<botVars, userStates>>

\* offer.Images, err = parseOtodomImages(jsonText)
CallParseOtodomImages ==
    /\ fn = "none"
    /\ \E text \in JsonTexts :
        /\ fn' = "parseOtodomImages"
        /\ arg' = text
        /\ ret' = parseOtodomImages(text)
    /\ UNCHANGED <<botVars, userStates>>

\* minPrice, maxPrice, err := processPriceStr(update.Message.Text)
CallProcessPriceStr ==
    /\ fn = "none"
    /\ \E text \in PriceInputs :
        /\ fn' = "processPriceStr"
        /\ arg' = text
        /\ ret' = processPriceStr(text)
    /\ UNCHANGED <<botVars, userStates>>

\* url, error := parser.CreateUrl(search_term), after processPriceStr has
\* accepted the text of the user.
CallCreateUrl ==
    /\ fn = "none"
    /\ \E text \in PriceInputs, city \in CityCodes :
        LET price == processPriceStr(text)
        IN  /\ price.err = ""
            /\ fn' = "CreateUrl"
            /\ arg' = [text |-> text, city |-> city, minPrice |-> price.minPrice,
                       maxPrice |-> price.maxPrice]
            /\ ret' = CreateUrl(SearchTerm(city, price.minPrice, price.maxPrice))
    /\ UNCHANGED <<botVars, userStates>>

\* The caller has taken the result.
Return ==
    /\ fn # "none"
    /\ fn' = "none"
    /\ arg' = <<>>
    /\ ret' = <<>>
    /\ UNCHANGED <<botVars, userStates>>

(***************************************************************************)
(* Request handler: the callbacks and messages of the new-search dialogue. *)
(***************************************************************************)
\* What the handler leaves alone: the offers table and the polling goroutine.
handlerFrame == <<offersDb, notifyLog, notifyFailed, pollerVars>>

\* processSearchAction, case "choose_city": newSearchProcessCity
ChooseCity(userID, city) ==
    /\ fn' = "newSearchProcessCity"
    /\ arg' = [user |-> userID, text |-> city, draft |-> DraftOf(userStates, userID),
               before |-> searchDb]
    /\ ret' = <<>>
    /\ userStates' = PutDraft(userStates, userID, city)
    /\ UNCHANGED <<searchDb, nextId, handlerFrame>>

\* processSearchAction, case "cancel_new_search"
CancelNewSearch(userID) ==
    /\ fn' = "cancel_new_search"
    /\ arg' = [user |-> userID, text |-> "", draft |-> DraftOf(userStates, userID),
               before |-> searchDb]
    /\ ret' = <<>>
    /\ userStates' = DeleteDraft(userStates, userID)
    /\ UNCHANGED <<searchDb, nextId, handlerFrame>>

\* processSearchAction, case "remove_search": removeSearchFromDatabase
RemoveSearch(userID, id) ==
    /\ fn' = "removeSearchFromDatabase"
    /\ arg' = [user |-> userID, text |-> "", draft |-> DraftOf(userStates, userID),
               before |-> searchDb]
    /\ ret' = <<>>
    /\ searchDb' = DeleteSearchRows(searchDb, id)
    /\ UNCHANGED <<userStates, nextId, handlerFrame>>

\* processMessage: the message is the price of the draft when the user has
\* one, and nothing to the dialogue otherwise.
ProcessMessage(userID, text) ==
    /\ nextId <= MaxSearchId
    /\ fn' = "processMessage"
    /\ arg' = [user |-> userID, text |-> text, draft |-> DraftOf(userStates, userID),
               before |-> searchDb]
    /\ ret' = <<>>
    /\ IF userID \in DOMAIN userStates /\ userStates[userID].state = "search|price"
       THEN \E dbErr \in BOOLEAN :
            LET after == newSearchProcessPrice(userStates, searchDb, nextId, userID, text, dbErr)
            IN  /\ userStates' = after.userStates
                /\ searchDb' = after.searchDb
                /\ nextId' = after.nextId
       ELSE UNCHANGED <<userStates, searchDb, nextId>>
    /\ UNCHANGED handlerFrame

HandlerNext ==
    \/ \E u \in Users, city \in CityCodes : ChooseCity(u, city)
    \/ \E u \in Users : CancelNewSearch(u)
    \/ \E u \in Users, id \in 1..MaxSearchId : RemoveSearch(u, id)
    \/ \E u \in Users, text \in MessageTexts : ProcessMessage(u, text)

HandlerSpec == Init /\ [][HandlerNext]_vars

\* The tokens of the scanned documents: the opening div of a card, a plain
\* div, the closing tags of a div and of a paragraph, a text.
ScanTokens == {MarkerDiv, StartTag("div"), EndTag("div"), EndTag("p"), TextToken("x")}

\* ParseHtml before its first token: arg is the tokens read, ret the locals.
StartParseHtml ==
    /\ fn = "none"
    /\ fn' = "ParseHtml(scan)"
    /\ arg' = <<>>
    /\ ret' = SegmentStart
    /\ UNCHANGED <<botVars, userStates>>

\* One turn of the loop of ParseHtml, on any token.
ScanToken ==
    /\ fn = "ParseHtml(scan)"
    /\ Len(arg) < MaxScanLen
    /\ \E t \in ScanTokens :
        /\ arg' = Append(arg, t)
        /\ ret' = OnPageToken(ret, t)
    /\ UNCHANGED <<fn, botVars, userStates>>

ParserNext ==
    \/ Return
    \/ StartParseHtml
    \/ ScanToken
    \/ CallNormalizeURL
    \/ CallExtractPrice
    \/ CallExtractLocationAndTime
    \/ CallExtractOffer
    \/ CallParseHtml
    \/ CallParseHtmlMarkup
    \/ CallExtractOfferTrace
    \/ CallSelectContext
    \/ CallParseOffer
    \/ CallParseOtodomImages
    \/ CallProcessPriceStr
    \/ CallCreateUrl

ParserSpec == Init /\ [][ParserNext]_vars

(***************************************************************************)
(* Properties.                                                             *)
(***************************************************************************)
\* A row of the offers table carries the natural key (title, price, userID).
KeyStored(db, title, price, userID) ==
    \E r \in BagToSet(db) : r.Title = title /\ r.Price = price /\ r.UserID = userID

\* The polling goroutine is inside a pass, so `search` is defined.
InPass == pc \in {"exists", "enrich", "persist", "notify", "sleep"}

\* C1: the offers table never holds two rows with the same (title, price,
\* userID), and AddOffer called with a key the table already holds (its
\* existence query succeeding) returns the table unchanged and no error.
C1_OneRowPerKey ==
    /\ \A r \in BagToSet(offersDb) :
        /\ CopiesIn(r, offersDb) = 1
        /\ \A q \in BagToSet(offersDb) :
            (q.Title = r.Title /\ q.Price = r.Price /\ q.UserID = r.UserID) => q = r
    /\ \A o \in ListingOffers, u \in Users, execErr \in BOOLEAN :
        KeyStored(offersDb, o.Title, o.Price, u)
            => AddOffer(offersDb, o, u, FALSE, execErr) = [db |-> offersDb, err |-> FALSE]

\* C1 witness: a later pass fetches a page showing an offer whose row an
\* earlier pass inserted, and skips it.
C1_Witness ==
    /\ passNo >= 2
    /\ InPass
    /\ ~pass.touched
    /\ it.skipped
    /\ OfferRow(offer, search.UserID) \in BagToSet(offersDb)

\* C2: no (title, price, userID) is handed to sendOfferToUser more than once,
\* whether the send succeeded or failed.
C2_NotifiedAtMostOnce ==
    /\ \A k \in BagToSet(notifyLog) : CopiesIn(k, notifyLog) = 1
    /\ \A f \in notifyFailed : CopiesIn(f.key, notifyLog) = 1

\* C2 witness: an offer whose send failed in an earlier pass is seen again by
\* a later sweep and skipped.
C2_Witness ==
    /\ InPass
    /\ it.skipped
    /\ \E f \in notifyFailed :
        f.key = OfferKey(offer, search.UserID) /\ f.pass < passNo

\* C3 (as claimed): an offer whose loop iteration has finished was handed to
\* sendOfferToUser exactly when it was absent at the dedup check, was
\* inserted in this pass, and has a non-empty image list and a non-empty Time.
C3_NotifiedIffFreshImagesAndTime ==
    it.done =>
        (it.notified <=>
            (it.absent /\ it.persisted /\ offer.Images # <<>> /\ offer.Time # ""))

\* C4 (as claimed): once a per-offer check of the pass has found the search
\* missing from the searches table, no offer of that pass is enriched,
\* persisted or notified.
C4_NoWorkAfterSearchGone ==
    pc \in {"enrich", "persist", "notify"} => ~pass.gone

\* C5 (as claimed): the polling goroutine never terminates.
C5_PollerNeverStops == pc # "crashed"

\* C6 (as claimed): after AddOffer returned an error the offer is not
\* notified and the pass goes on to the next offer or to the end of the pass.
C6_PersistFailureSkipsOffer ==
    it.persistErr => (pc \in {"exists", "sleep"} /\ ~it.notified)

\* C7 (as claimed): after FetchHTMLPage returned an error the pass of that
\* search ends and the sweep goes on.
C7_FetchFailureSkipsSearch ==
    pass.fetchErr => pc = "sleep"

\* C8: no step removes or rewrites a row of the offers table: every row of
\* the table is still in it, as often, after the step.
C8_RowsOnlyGrow ==
    [][\A r \in BagToSet(offersDb) : CopiesIn(r, offersDb') >= CopiesIn(r, offersDb)]_vars

\* C8 witness: the send of an offer failed and its row is in the table.
C8_Witness ==
    \E f \in notifyFailed : KeyStored(offersDb, f.key.Title, f.key.Price, f.key.UserID)

\* C9: an offer is enriched and persisted only while the table holds no row
\* with its title and price for the search's user, whatever that row's other
\* fields; and it is skipped only when the table holds such a row for the
\* same user (a row of another user does not make it skipped).
C9_DedupByTitlePriceUser ==
    /\ pc \in {"enrich", "persist"}
        => ~KeyStored(offersDb, offer.Title, offer.Price, search.UserID)
    /\ (InPass /\ it.skipped)
        => KeyStored(offersDb, offer.Title, offer.Price, search.UserID)

\* C9 witness: an offer is skipped although the stored row with its title and
\* price has another URL, while the same title and price is stored and was
\* notified for both users.
C9_Witness ==
    /\ InPass
    /\ it.skipped
    /\ \E r \in BagToSet(offersDb) :
        /\ r.Title = offer.Title /\ r.Price = offer.Price
        /\ r.UserID = search.UserID /\ r.Url # offer.Url
    /\ \A u \in Users :
        /\ KeyStored(offersDb, offer.Title, offer.Price, u)
        /\ BagIn(OfferKey(offer, u), notifyLog)

\* C10: in a pass whose page has no fragment with a title the loop body never
\* runs and nothing is fetched, inserted or sent; the steps that enter and
\* leave such a pass change neither table nor the notification log.
C10_EmptyPassNoEffects ==
    /\ []((InPass /\ ~pass.titled) => (pc = "sleep" /\ ~pass.touched))
    /\ [][((pc' # pc /\ pc' = "sleep" /\ ~pass'.titled)
            \/ (pc = "sleep" /\ ~pass.titled /\ pc' # pc))
          => UNCHANGED <<offersDb, searchDb, notifyLog, notifyFailed>>]_vars

\* C10 witness: a pass over a page without offers has ended while the offers
\* table already holds rows.
C10_Witness ==
    /\ pc = "sleep"
    /\ ~pass.titled
    /\ offersDb # EmptyBag

\* An absolute URL: it begins with a scheme and "//".
IsAbsoluteURL(u) == HasPrefix(u, "http://") \/ HasPrefix(u, "https://")

\* C15 (as claimed): normalizeURL(u, base) is base+u for a root-relative u,
\* u itself for an absolute u, and base+"/"+u for every other (bare) u.
C15_NormalizeURLByShape ==
    fn = "normalizeURL" =>
        ret = (IF HasPrefix(arg, "/") THEN BaseURL \o arg
               ELSE IF IsAbsoluteURL(arg) THEN arg
               ELSE BaseURL \o "/" \o arg)

\* The digits of a text, in order.
RECURSIVE DigitsOf(_)
DigitsOf(text) ==
    IF text = "" THEN ""
    ELSE (IF IsDigit(SubSeq(text, 1, 1)) THEN SubSeq(text, 1, 1) ELSE "")
             \o DigitsOf(SubSeq(text, 2, Len(text)))

RECURSIVE WithoutLeadingZeros(_)
WithoutLeadingZeros(ds) ==
    IF ds # "" /\ SubSeq(ds, 1, 1) = "0" THEN WithoutLeadingZeros(SubSeq(ds, 2, Len(ds)))
    ELSE ds

\* a <= b for two numerals of the same length.
RECURSIVE NumeralLeq(_, _)
NumeralLeq(a, b) ==
    IF a = "" THEN TRUE
    ELSE LET x == DigitVal(SubSeq(a, 1, 1))
             y == DigitVal(SubSeq(b, 1, 1))
         IN  x < y \/ (x = y /\ NumeralLeq(SubSeq(a, 2, Len(a)), SubSeq(b, 2, Len(b))))

\* The numeral ds denotes a value of Go's int.
ParsesAsInt(ds) ==
    LET n == WithoutLeadingZeros(ds)
    IN  ds # "" /\ (Len(n) < 10 \/ (Len(n) = 10 /\ NumeralLeq(n, "2147483647")))

\* The base-10 value of a numeral.
RECURSIVE DecimalValue(_)
DecimalValue(ds) ==
    IF ds = "" THEN 0
    ELSE 10 * DecimalValue(SubSeq(ds, 1, Len(ds) - 1)) + DigitVal(SubSeq(ds, Len(ds), Len(ds)))

\* C16: extractPrice returns the base-10 value of the text's digits taken in
\* order (spaces, non-breaking spaces and every other character between them
\* dropped), 0 when there is no digit or the numeral is not a value of int,
\* and never a negative number.
C16_PriceIsValueOfDigits ==
    fn = "extractPrice" =>
        /\ ret >= 0
        /\ ret = (IF ParsesAsInt(DigitsOf(arg)) THEN DecimalValue(DigitsOf(arg)) ELSE 0)

\* C16 witness: a text with spaces and several digit runs got a positive price.
C16_Witness ==
    /\ fn = "extractPrice"
    /\ Contains(arg, " ")
    /\ Len(FindAllString(RemoveAll(arg, " "))) >= 2
    /\ ret > 0

\* s is t with the white space at its two ends removed.
IsTrimmed(s, t) ==
    /\ \E a \in 0..Len(t), b \in 0..Len(t) :
        /\ a <= b
        /\ s = SubSeq(t, a + 1, b)
        /\ \A i \in (1..a) \cup ((b + 1)..Len(t)) : SubSeq(t, i, i) \in WhiteSpace
    /\ s # "" => (SubSeq(s, 1, 1) \notin WhiteSpace /\ SubSeq(s, Len(s), Len(s)) \notin WhiteSpace)

\* `sub` occurs in s at position i.
OccursAt(s, i, sub) ==
    i + Len(sub) - 1 <= Len(s) /\ SubSeq(s, i, i + Len(sub) - 1) = sub

\* C17: for a text without " - " the location is the whole text and the time
\* is empty; for a text whose first " - " is at position i the location is
\* the trimmed text before it, and the time is empty unless the text after it
\* contains the today keyword.
C17_LocationAndTodayTime ==
    fn = "extractLocationAndTime" =>
        /\ (\A i \in 1..Len(arg) : ~OccursAt(arg, i, " - "))
            => (ret.location = arg /\ ret.timeStr = "")
        /\ \A i \in 1..Len(arg) :
            (/\ OccursAt(arg, i, " - ")
             /\ \A j \in 1..(i - 1) : ~OccursAt(arg, j, " - "))
            => /\ IsTrimmed(ret.location, SubSeq(arg, 1, i - 1))
               /\ ret.timeStr # "" =>
                    \E k \in (i + 3)..Len(arg) : OccursAt(arg, k, "Dzisiaj")

\* C17 witness: a text dated today gave a location and a time, and a text
\* dated otherwise gave a location and no time.
C17_Witness ==
    /\ fn = "extractLocationAndTime"
    /\ Contains(arg, " - ")
    /\ ret.location # ""
    /\ \/ ret.timeStr # ""
       \/ FindTime(arg) # "" /\ ~Contains(arg, TodayKeyword)


\* A card whose markup does not show the featured label.
NotFeatured(c) == ~c.featured

\* A card that is well-formed but for the featured label it shows.
FeaturedWellFormed(c) == c.featured /\ [c EXCEPT !.featured = FALSE] \in WellFormedCards

\* C11: ParseHtml never returns an offer that comes from a fragment whose text
\* contains the featured marker: extractOffer answers the empty offer for a
\* card that shows the marker, and the list ParseHtml returns for a page is
\* the list it returns for the same page with the featured cards taken out.
C11_FeaturedNeverReturned ==
    /\ (fn = "extractOffer" /\ arg.featured) => ret = EmptyOffer
    /\ fn = "ParseHtml" =>
          ret = ParseHtml(ExtractedOffers(OfferContents(PageTokens(SelectSeq(arg, NotFeatured)))))

\* A page with a featured card that has everything else an offer needs, next
\* to a card that is returned.
C11_Witness ==
    /\ fn = "ParseHtml"
    /\ \E i \in 1..Len(arg) : FeaturedWellFormed(arg[i])
    /\ Len(ret) = 1
    /\ Len(arg) = 2

\* C12: every offer ParseHtml returns has a non-empty title and a non-empty
\* URL.
C12_ReturnedOffersHaveTitleAndUrl ==
    fn = "ParseHtml" => \A i \in 1..Len(ret) : ret[i].Title # "" /\ ret[i].Url # ""

\* A page with a card whose title is matched inside an anchor without href:
\* the card is dropped, the other card of the page is returned.
C12_Witness ==
    /\ fn = "ParseHtml"
    /\ \E i \in 1..Len(arg) :
          /\ arg[i].anchor /\ arg[i].href = "" /\ arg[i].titleInLink /\ arg[i].title # ""
          /\ ~arg[i].featured
    /\ Len(arg) = 2
    /\ Len(ret) = 1

\* C13: for a fragment with no anchor start tag that carries an href,
\* extractOffer returns the empty offer, whatever title, price or location the
\* fragment's markup matched.
C13_NoHrefGivesSentinel ==
    (fn = "extractOffer" /\ (~arg.anchor \/ arg.href = "")) => ret = EmptyOffer

\* A card with an anchor that has no href, whose title, price and location
\* are all matched.
C13_Witness ==
    /\ fn = "extractOffer"
    /\ arg.anchor /\ arg.href = "" /\ arg.titleInLink /\ ~arg.featured
    /\ arg.title = "Kawalerka"
    /\ arg.price = "1 700 zl"
    /\ arg.location = "Gdansk - Dzisiaj o 23:45"
    /\ ret = EmptyOffer

\* C14: the URL of every offer extractOffer extracts is absolute, whatever the
\* href of the card's anchor is.  (Refuted: the href "httpd/c.html" is kept as
\* it is, see C15.)
C14_ExtractedUrlAbsolute ==
    (fn = "extractOffer" /\ ret # EmptyOffer) => IsAbsoluteURL(ret.Url)


\* What a well-formed card shows, written out: the number of its price
\* paragraph, the place of its location-date paragraph and the clock time of
\* that paragraph two hours later.
ShownPrice(c) == IF c.price = "1 700 zl" THEN 1700 ELSE 2500
ShownLocation(c) ==
    IF c.location = "Szczecin, Gumience - Dzisiaj o 14:30" THEN "Szczecin, Gumience" ELSE "Gdansk"
ShownTime(c) ==
    IF c.location = "Szczecin, Gumience - Dzisiaj o 14:30" THEN "16:30" ELSE "01:45"

\* The offer of a well-formed card.
OfferOfCard(c) ==
    [EmptyOffer EXCEPT !.Title = c.title, !.Price = ShownPrice(c),
                       !.Location = ShownLocation(c), !.Time = ShownTime(c),
                       !.Url = "https://www.olx.pl/d/oferta/a.html"]

\* A page all of whose cards are well-formed.
AllWellFormed(cards) == \A i \in 1..Len(cards) : cards[i] \in WellFormedCards

\* C18: for a listing page made of well-formed cards that are not featured,
\* ParseHtml returns exactly one offer per card, in the cards' order, with the
\* card's title, the integer of its price, its location, its time shifted by
\* the timezone offset and its absolute URL; the fields of the detail page are
\* left empty.
C18_OneOfferPerWellFormedCard ==
    (fn = "ParseHtml" /\ AllWellFormed(arg)) =>
        /\ Len(ret) = Len(arg)
        /\ \A i \in 1..Len(arg) : ret[i] = OfferOfCard(arg[i])

\* A page of two well-formed cards that differ in title, price and location,
\* one of them dated a quarter to midnight.
C18_Witness ==
    /\ fn = "ParseHtml"
    /\ AllWellFormed(arg)
    /\ Len(arg) = 2
    /\ arg[1].title # arg[2].title
    /\ arg[1].price # arg[2].price
    /\ arg[1].location # arg[2].location
    /\ Len(ret) = 2
    /\ ret[2].Time = "01:45"


\* C19: when the fetch of the detail page fails, ParseOffer returns the offer
\* with every field as it was before the call, for an offer of either site.
C19_FetchFailureLeavesOffer ==
    (fn = "ParseOffer" /\ arg.fetch.err) => (~ret.panicked /\ ret.offer = arg.offer)

\* The fetch fails for an offer of olx and for one of otodom whose fields are
\* all set; a page that is fetched does change such an offer.
C19_Witness ==
    /\ fn = "ParseOffer"
    /\ arg.fetch.err
    /\ arg.offer.Url = OlxUrl
    /\ arg.offer.Description # "" /\ arg.offer.Images # <<>> /\ arg.offer.AdditionalPayment # 0
    /\ ret.offer = arg.offer

\* A JSON text that is malformed, lacks a key of the path props -> pageProps
\* -> ad -> images, or has an image without a string "large".
BrokenJson(text) == text \in JsonTexts \ {JsonDocs[1].text, JsonDocs[2].text}

\* The offer ParseOffer returns for the page of `fetch` with a JSON script
\* that lists no image.
WithSoundJson(o, fetch) ==
    ParseOffer(o, FetchedDetail([fetch EXCEPT !.shown.json = JsonDocs[2].text]))

\* C20: for a JSON document that is malformed or lacks the path to the images
\* (or an image's string "large"), parseOtodomImages returns an error, and
\* parseOtodomOffer runs to the end of the page and returns the offer with the
\* description, rooms, area, floor and surcharge the page gives it.
\* (Refuted: a document that lacks a key makes parseOtodomImages panic.)
C20_BrokenJsonIsAnErrorValue ==
    /\ (fn = "parseOtodomImages" /\ BrokenJson(arg)) => (ret.err /\ ~ret.panicked)
    /\ (/\ fn = "ParseOffer"
        /\ arg.offer.Url = OtodomUrl
        /\ ~arg.fetch.err
        /\ arg.fetch.shown.site = "otodom"
        /\ BrokenJson(arg.fetch.shown.json))
       => /\ ~ret.panicked
          /\ LET sound == WithSoundJson(arg.offer, arg.fetch)
             IN  /\ ret.offer.Description = sound.Description
                 /\ ret.offer.Rooms = sound.Rooms
                 /\ ret.offer.Area = sound.Area
                 /\ ret.offer.Floor = sound.Floor
                 /\ ret.offer.AdditionalPayment = sound.AdditionalPayment


\* Numbers a user writes, as text and as value.
NumberTexts ==
    << [text |-> "0", val |-> 0], [text |-> "5", val |-> 5], [text |-> "7", val |-> 7],
       [text |-> "50", val |-> 50], [text |-> "1000", val |-> 1000],
       [text |-> "2000", val |-> 2000] >>

\* Texts that are not numbers.
NonNumbers == {"abc", "a", "1 0", "5a"}

Pads == {"", " "}

\* The number of times the one-character text c occurs in s.
CountOf(s, c) == Cardinality({i \in 1..Len(s) : SubSeq(s, i, i) = c})

\* C21: after trimming, processPriceStr maps "a-b" to (a, b), "a+" and "a-" to
\* (a, 0), "-b" and a bare "b" to (0, b), with spaces around each number
\* ignored (for bounds b > 0 and a = 0 or a <= b, the others being errors).
C21_PriceFormats ==
    fn = "processPriceStr" =>
        \A i, j \in 1..Len(NumberTexts), p, q, r, t \in Pads :
            LET a == NumberTexts[i]
                b == NumberTexts[j]
            IN  /\ (/\ arg = p \o a.text \o q \o "-" \o r \o b.text \o t
                    /\ b.val > 0 /\ (a.val = 0 \/ a.val <= b.val))
                       => ret = PriceResult(a.val, b.val, "")
                /\ arg = p \o a.text \o q \o "+" \o t => ret = PriceResult(a.val, 0, "")
                /\ arg = p \o a.text \o q \o "-" \o t => ret = PriceResult(a.val, 0, "")
                /\ (arg = p \o "-" \o r \o b.text \o t /\ b.val > 0)
                       => ret = PriceResult(0, b.val, "")
                /\ (arg = p \o b.text \o t /\ b.val > 0) => ret = PriceResult(0, b.val, "")

\* A range with spaces around both numbers has been read.
C21_Witness ==
    /\ fn = "processPriceStr"
    /\ arg = " 1000 - 2000 "
    /\ ret = PriceResult(1000, 2000, "")

\* A text the claim says is refused: a bound that is not a number, a negative
\* minimum, a zero maximum, more than one "-", a minimum above the maximum.
Refused(text) ==
    \/ CountOf(text, "-") >= 2
    \/ \E x \in NonNumbers, i \in 1..Len(NumberTexts), p, q \in Pads :
          LET n == NumberTexts[i].text
          IN  text \in {p \o x \o q \o "-" \o q \o n \o p, p \o n \o q \o "-" \o q \o x \o p,
                        p \o x \o q \o "+" \o p, p \o x \o q \o "-" \o p,
                        p \o "-" \o q \o x \o p, p \o x \o p}
    \/ \E i, j \in 1..Len(NumberTexts), p, q \in Pads :
          LET a == NumberTexts[i]
              b == NumberTexts[j]
          IN  \/ a.val > 0 /\ text = p \o "-" \o a.text \o q \o "+" \o p
              \/ b.val = 0 /\ text \in {p \o a.text \o q \o "-" \o q \o b.text \o p,
                                        p \o "-" \o q \o b.text \o p, p \o b.text \o p}
              \/ b.val > 0 /\ a.val > b.val /\ text = p \o a.text \o q \o "-" \o q \o b.text \o p

\* C22: processPriceStr returns an error for every refused text, an error
\* comes with both bounds 0, and a success has min >= 0, max >= 0 and, when
\* both are positive, min <= max.
C22_PriceErrors ==
    fn = "processPriceStr" =>
        /\ Refused(arg) => ret.err # ""
        /\ ret.err # "" => (ret.minPrice = 0 /\ ret.maxPrice = 0)
        /\ ret.err = "" =>
              /\ ret.minPrice >= 0 /\ ret.maxPrice >= 0
              /\ (ret.minPrice > 0 /\ ret.maxPrice > 0) => ret.minPrice <= ret.maxPrice

\* A range whose minimum is above its maximum has been refused.
C22_Witness ==
    /\ fn = "processPriceStr"
    /\ arg = "2000-1000"
    /\ ret.err = "minimum price cannot be higher than maximum price"
    /\ ret.minPrice = 0 /\ ret.maxPrice = 0


\* C23: for every accepted price text and every city, the URL of CreateUrl
\* contains the city, contains the price "from" parameter exactly when the
\* minimum is not 0 and the price "to" parameter exactly when the maximum is
\* not 0; with no city CreateUrl returns an error and no URL.
C23_UrlCarriesCityAndBounds ==
    fn = "CreateUrl" =>
        IF arg.city = "" THEN ret.err # "" /\ ret.url = ""
        ELSE /\ ret.err = ""
             /\ Contains(ret.url, arg.city)
             /\ Contains(ret.url, "search[filter_float_price:from]=") <=> arg.minPrice # 0
             /\ Contains(ret.url, "search[filter_float_price:to]=") <=> arg.maxPrice # 0

\* A minimum without maximum gives a URL with the "from" parameter only.
C23_Witness ==
    /\ fn = "CreateUrl"
    /\ arg.text = "1500+" /\ arg.city = "warszawa"
    /\ Contains(ret.url, "warszawa")
    /\ Contains(ret.url, "search[filter_float_price:from]=1500")
    /\ ~Contains(ret.url, "search[filter_float_price:to]")


\* The rows the store holds for one (user, URL) pair.
RowsOf(db, userID, url) ==
    {i \in 1..Len(db) : db[i].UserID = userID /\ db[i].URL = url}

SearchIdsOf(db, userID, url) == {db[i].ID : i \in RowsOf(db, userID, url)}

AtMostOneSearchPerPair ==
    \A u \in Users, url \in SearchUrls : Cardinality(RowsOf(searchDb, u, url)) <= 1

\* No step inserts a row for a pair the store already holds.
NoInsertOfExistingPair ==
    \A u \in Users, url \in SearchUrls :
        RowsOf(searchDb, u, url) # {} =>
            SearchIdsOf(searchDb', u, url) \subseteq SearchIdsOf(searchDb, u, url)

RECURSIVE CardOpen(_, _)
CardOpen(m, i) ==
    IF i = 1 THEN 3
    ELSE CardOpen(m, i - 1) + Len(CardFragment(m.cards[i - 1], (i - 1) \in m.nested)) + 3

CardClose(m, i) == CardOpen(m, i) + Len(CardFragment(m.cards[i], i \in m.nested)) + 1

\* The div start tags less the div end tags among the tokens a..b.
DivDepth(tokens, a, b) ==
    Cardinality({k \in a..b : tokens[k].tt = "start" /\ tokens[k].data = "div"})
        - Cardinality({k \in a..b : tokens[k].tt = "end" /\ tokens[k].data = "div"})

\* The tag at position q is the end tag that balances the start tag at p.
Balances(tokens, p, q) ==
    /\ tokens[q].tt = "end" /\ tokens[q].data = "div"
    /\ DivDepth(tokens, p + 1, q - 1) = 0
    /\ \A k \in (p + 1)..(q - 1) :
          (tokens[k].tt = "end" /\ tokens[k].data = "div") => DivDepth(tokens, p + 1, k - 1) > 0

\* C25: on a listing page, the fragment ParseHtml opens at a card's separator
\* div is closed exactly at the end tag that balances that div: the fragment
\* holds every token between the two, a nested div with the separator and its
\* end tag included (the nested div opens no fragment of its own, and an end
\* tag met at a depth above 0 closes nothing); a card gives at most one
\* fragment and at most one offer.
C25_FragmentClosedAtBalancingTag ==
    fn = "ParseHtml(markup)" =>
        LET tokens == MarkupTokens(arg.cards, arg.nested)
        IN  /\ Len(ret.contents) <= Len(arg.cards)
            /\ Len(ret.offers) <= Len(ret.contents)
            /\ \A i \in 1..Len(arg.cards) :
                  CardClose(arg, i) <= arg.cut =>
                      /\ Balances(tokens, CardOpen(arg, i), CardClose(arg, i))
                      /\ i <= Len(ret.contents)
                      /\ ret.contents[i] =
                             SubSeq(tokens, CardOpen(arg, i) + 1, CardClose(arg, i) - 1)

\* A whole page of two cards, the first with a nested separator div: two
\* fragments, the first with the nested div and its end tag in it, two offers.
C25_Witness ==
    /\ fn = "ParseHtml(markup)"
    /\ Len(arg.cards) = 2 /\ arg.nested = {1}
    /\ arg.cut = Len(MarkupTokens(arg.cards, arg.nested))
    /\ Len(ret.contents) = 2
    /\ ret.contents[1][1] = MarkerDiv
    /\ ret.contents[1][Len(ret.contents[1])] = EndTag("div")
    /\ Len(ret.offers) = 2
    /\ ret.offers[1].Title = arg.cards[1].title


\* The document ends inside card i: its opening div was read, its closing tag
\* was not.
EndsInsideCard(m, i) == CardOpen(m, i) <= m.cut /\ m.cut < CardClose(m, i)

\* C26: when the tokens end while a fragment is open, ParseHtml returns the
\* offers of the cards closed before and nothing for the open one: its
\* fragment is neither handed to extractOffer nor added to the result.
C26_TruncatedFragmentDropped ==
    fn = "ParseHtml(markup)" =>
        \A i \in 1..Len(arg.cards) :
            EndsInsideCard(arg, i) =>
                /\ Len(ret.contents) = i - 1
                /\ Len(ret.offers) = i - 1
                /\ \A j \in 1..(i - 1) : ret.offers[j].Title = arg.cards[j].title

\* The document ends one token before the closing tag of the second card,
\* all of its title, price and location read: the first card's offer alone.
C26_Witness ==
    /\ fn = "ParseHtml(markup)"
    /\ Len(arg.cards) = 2
    /\ arg.cards[1].title # arg.cards[2].title
    /\ arg.cut = CardClose(arg, 2) - 1
    /\ Len(ret.offers) = 1
    /\ ret.offers[1].Title = arg.cards[1].title


\* The search of the current pass is no longer in the searches table.
SearchGone == InPass /\ ~(\E i \in 1..Len(searchDb) : searchDb[i].ID = search.ID)

\* The polling goroutine takes a step past its present position.
PollerMoves == pc' # pc /\ pc' # "crashed"

\* C27: a search deleted by the request handler after the per-offer check of
\* an offer, before that offer is persisted, does not stop the offer: the
\* next step of the pipeline persists it for the deleted search's user (unless
\* AddOffer fails), and the step after that notifies that user when the offer
\* is dated today.
C27_DeletedSearchStillServed ==
    [][/\ (pc = "persist" /\ SearchGone /\ PollerMoves) =>
            /\ pc' = "notify"
            /\ KeyStored(offersDb', offer.Title, offer.Price, search.UserID)
       /\ (pc = "notify" /\ SearchGone /\ IsPostedToday(offer) /\ PollerMoves) =>
            /\ it'.notified
            /\ CopiesIn(OfferKey(offer, search.UserID), notifyLog')
                  = CopiesIn(OfferKey(offer, search.UserID), notifyLog) + 1]_vars

\* The search was in the table at the check of the offer (as at every check
\* of the pass) and is gone now, with the offer enriched and not yet
\* persisted.
C27_Witness ==
    /\ pc = "persist"
    /\ it.absent
    /\ ~pass.gone
    /\ SearchGone
    /\ IsPostedToday(offer)
    /\ ~KeyStored(offersDb, offer.Title, offer.Price, search.UserID)


\* The positions of the loop body of processAllOffersFromSearch, in the order
\* of the code.
StepOrder ==
    /\ pc' = "enrich" => pc \in {"exists", "enrich"}
    /\ pc' = "persist" => pc \in {"enrich", "persist"}
    /\ pc' = "notify" => pc \in {"persist", "notify"}
    /\ (pc = "enrich" /\ pc' # pc) => pc' = "persist"
    /\ (pc = "persist" /\ pc' # pc) => pc' \in {"notify", "crashed"}
    /\ (it'.notified /\ ~it.notified) => pc = "notify"

SweepInOrder ==
    /\ sweep' # sweep =>
          \/ pc = "getSearches" /\ sweep' = searchDb
          \/ pc = "sleep" /\ sweep' = Tail(sweep)
          \/ pc' = "crashed"
    /\ offers' # offers =>
          \/ pc = "fetch"
          \/ pc \in {"exists", "notify"} /\ offers' = Tail(offers)
          \/ pc' = "crashed"
    /\ passNo' # passNo => (pc = "fetch" /\ pc' \in {"exists", "sleep", "crashed"})
    /\ (pc' = "fetch" /\ pc # "fetch") => (pc \in {"getSearches", "sleep"} /\ sweep' # <<>>)
    /\ (pc = "fetch" /\ pc' # pc) => passNo' = passNo + 1
    /\ (pc = "sleep" /\ pc' = "getSearches") => Len(sweep) = 1

\* C29: an outer iteration reads the searches table once, when the list of the
\* iteration before is used up, and works through that list head first, one
\* fetch per search; the offers of a page are worked through head first, the
\* offer in progress being the first one left, and a search's pass ends only
\* with no offer left.
C29_SequentialSweep ==
    /\ [][SweepInOrder]_vars
    /\ [](pc = "getSearches" => (sweep = <<>> /\ offers = <<>>))
    /\ [](pc \in {"fetch", "sleep"} => (sweep # <<>> /\ offers = <<>>))
    /\ [](pc \in {"enrich", "persist", "notify"} =>
             /\ sweep # <<>> /\ offers # <<>>
             /\ offer.Title = Head(offers).Title /\ offer.Url = Head(offers).Url)

\* The second search of the list is in its pass, the first offer of its page
\* dealt with and the second one next.
C29_Witness ==
    /\ Len(searchDb) = 2
    /\ sweep = <<searchDb[2]>>
    /\ pc = "exists"
    /\ it.done
    /\ Len(offers) = 1


\* The selectors of the configuration the start tag matches.
MatchesTitleRule == matchesSelector(arg.token, arg.config.TitleSelector) /\ arg.isInLink
MatchesPriceRule == matchesSelector(arg.token, arg.config.PriceSelector)
MatchesLocationRule == matchesSelector(arg.token, arg.config.LocationSelector)

\* C30 (as claimed): the context after a start tag is "title" when the tag
\* matches the title selector inside an anchor, else "price" when it matches
\* the price selector, else "location-date" when it matches the location-date
\* selector, else a data attribute of the tag when it has one, else the
\* context as it was.
C30_ContextTitleFirst ==
    fn = "extractOfferWithConfig(start tag)" =>
        ret = IF MatchesTitleRule THEN "title"
              ELSE IF MatchesPriceRule THEN "price"
              ELSE IF MatchesLocationRule THEN "location-date"
              ELSE IF arg.token.testid # "" THEN arg.token.testid
              ELSE IF arg.token.cy # "" THEN arg.token.cy
              ELSE arg.currentContext

\* What the code does: price, then location-date, then title.
ContextPriceFirst ==
    fn = "extractOfferWithConfig(start tag)" =>
        ret = IF MatchesPriceRule THEN "price"
              ELSE IF MatchesLocationRule THEN "location-date"
              ELSE IF MatchesTitleRule THEN "title"
              ELSE IF arg.token.testid # "" THEN arg.token.testid
              ELSE IF arg.token.cy # "" THEN arg.token.cy
              ELSE arg.currentContext

\* Under OLXConfig no tag matches two selectors.
OLXSelectorsDisjoint ==
    (fn = "extractOfferWithConfig(start tag)" /\ arg.config = OLXConfig) =>
        Cardinality({r \in {"title", "price", "location"} :
                        \/ r = "title" /\ MatchesTitleRule
                        \/ r = "price" /\ MatchesPriceRule
                        \/ r = "location" /\ MatchesLocationRule}) <= 1


\* The token at position k of the traced fragment is a text read in the
\* price context whose normalized value is a positive integer.
PriceTextAt(k) ==
    /\ arg.tokens[k].tt = "text"
    /\ TrimSpace(arg.tokens[k].data) # ""
    /\ extractPrice(TrimSpace(arg.tokens[k].data)) > 0
    /\ ret[k].Price = extractPrice(TrimSpace(arg.tokens[k].data))

\* C31 (as claimed): once a text of the price context with a positive value
\* has set the price of the offer under construction, no later token of the
\* fragment changes the price.
C31_PriceFirstMatchWins ==
    fn = "extractOffer(trace)" =>
        \A k \in 1..Len(ret) : \A l \in k..Len(ret) :
            ret[k].Price > 0 => ret[l].Price = ret[k].Price

\* What the code does: the price is that of the last price-context text with
\* a positive value.
PriceLastMatchWins ==
    fn = "extractOffer(trace)" =>
        \A k \in 2..Len(ret) :
            ret[k].Price # ret[k - 1].Price => PriceTextAt(k)

\* C32: once the title, the URL, the location or the time of the offer under
\* construction is not empty, no later token of the fragment changes it; the
\* title and the location are those of the first card of the fragment and the
\* URL is the one of the first anchor with an href.
C32_FieldsWriteOnce ==
    fn = "extractOffer(trace)" =>
        /\ \A k \in 1..Len(ret) : \A l \in k..Len(ret) :
              /\ ret[k].Title # "" => ret[l].Title = ret[k].Title
              /\ ret[k].Url # "" => ret[l].Url = ret[k].Url
              /\ ret[k].Location # "" => ret[l].Location = ret[k].Location
              /\ ret[k].Time # "" => ret[l].Time = ret[k].Time
        /\ (arg.first.title # "" /\ arg.first.titleInLink) =>
              ret[Len(ret)].Title = arg.first.title
        /\ arg.first.href # "" =>
              ret[Len(ret)].Url = normalizeURL(arg.first.href, BaseURL)

\* Two cards that differ in title, location and time: the fields of the first
\* one are those left at the end of the fragment.
C32_Witness ==
    /\ fn = "extractOffer(trace)"
    /\ arg.first.title # arg.second.title
    /\ arg.first.location # arg.second.location
    /\ arg.first.href # "" /\ arg.second.href # ""
    /\ arg.first.titleInLink /\ arg.second.titleInLink
    /\ ret[Len(ret)].Title = arg.first.title
    /\ ret[Len(ret)].Time = extractLocationAndTime(arg.first.location).timeStr
    /\ ret[Len(ret)].Time # extractLocationAndTime(arg.second.location).timeStr


\* The positions of " - " in the text, and the part the text dates itself
\* in: what stands between the first " - " and the next one after it.
SeparatorsOf(text) == {i \in 1..Len(text) : OccursAt(text, i, " - ")}
FirstOf(S) == CHOOSE i \in S : \A j \in S : i <= j
DatePartOf(text) ==
    LET i == FirstOf(SeparatorsOf(text))
        later == {j \in SeparatorsOf(text) : j >= i + 3}
    IN  SubSeq(text, i + 3, IF later = {} THEN Len(text) ELSE FirstOf(later) - 1)

\* The positions of the text where two digits, a colon and two digits stand.
ClocksOf(text) ==
    {k \in 1..(Len(text) - 4) :
        /\ \A d \in {0, 1, 3, 4} : IsDigit(SubSeq(text, k + d, k + d))
        /\ SubSeq(text, k + 2, k + 2) = ":"}
HourAt(text, k) == 10 * DigitVal(SubSeq(text, k, k)) + DigitVal(SubSeq(text, k + 1, k + 1))
MinuteAt(text, k) == 10 * DigitVal(SubSeq(text, k + 3, k + 3)) + DigitVal(SubSeq(text, k + 4, k + 4))

\* s is a clock time between 00:00 and 23:59.
IsClock(s) == Len(s) = 5 /\ ClocksOf(s) = {1} /\ HourAt(s, 1) <= 23 /\ MinuteAt(s, 1) <= 59

\* The text is dated today and the first clock time it shows is a valid one.
TodayWithClock(text) ==
    /\ SeparatorsOf(text) # {}
    /\ Contains(DatePartOf(text), "Dzisiaj")
    /\ ClocksOf(DatePartOf(text)) # {}
    /\ IsClock(SubSeq(DatePartOf(text), FirstOf(ClocksOf(DatePartOf(text))),
                      FirstOf(ClocksOf(DatePartOf(text))) + 4))

\* The minute of the day n, written HH:MM.
ClockOfMinute(n) == TwoDigits(n \div 60) \o ":" \o TwoDigits(n % 60)

\* C33: for a text dated today whose clock time is a valid HH:MM, the time
\* returned is that time plus the offset of the profile (two hours), taken
\* modulo 24 hours and written HH:MM.
C33_TimeShiftedModulo24 ==
    (fn = "extractLocationAndTime" /\ TodayWithClock(arg)) =>
        LET d == DatePartOf(arg)
            k == FirstOf(ClocksOf(d))
        IN  ret.timeStr =
                ClockOfMinute((HourAt(d, k) * 60 + MinuteAt(d, k) + TimezoneOffset * 60) % 1440)

\* 23:30 becomes 01:30.
C33_Witness ==
    /\ fn = "extractLocationAndTime"
    /\ TodayWithClock(arg)
    /\ Contains(arg, "23:30")
    /\ ret.timeStr = "01:30"


\* C39: the time extractLocationAndTime returns, and the time of an offer
\* extractOffer returns, is empty or a clock time between 00:00 and 23:59; a
\* text dated today that shows no clock time, or a first one that is not a
\* valid time, gives an empty time and still its location.
C39_TimeEmptyOrValidClock ==
    /\ fn = "extractLocationAndTime" =>
          /\ ret.timeStr = "" \/ IsClock(ret.timeStr)
          /\ (/\ SeparatorsOf(arg) # {}
              /\ Contains(DatePartOf(arg), "Dzisiaj")
              /\ ~TodayWithClock(arg)) =>
                 /\ ret.timeStr = ""
                 /\ IsTrimmed(ret.location, SubSeq(arg, 1, FirstOf(SeparatorsOf(arg)) - 1))
    /\ fn = "extractOffer" => (ret.Time = "" \/ IsClock(ret.Time))
    /\ fn = "extractOffer(trace)" => \A k \in 1..Len(ret) : (ret[k].Time = "" \/ IsClock(ret[k].Time))

\* A text dated today with the clock time 25:99: no time, the location kept.
C39_Witness ==
    /\ fn = "extractLocationAndTime"
    /\ Contains(arg, "Dzisiaj o 25:99")
    /\ ret.location = "Gdansk"
    /\ ret.timeStr = ""


\* The keys (title, price, user) of the rows of the offers table.
StoredKeys == {[Title |-> r.Title, Price |-> r.Price, UserID |-> r.UserID] : r \in BagToSet(offersDb)}

\* The key the loop iteration in progress has just inserted, no row of that
\* key having been in the table before.
JustPersisted(k) ==
    /\ pc = "notify" /\ it.persisted /\ k = OfferKey(offer, search.UserID)
    /\ Cardinality({r \in BagToSet(offersDb) :
                       r.Title = k.Title /\ r.Price = k.Price /\ r.UserID = k.UserID}) = 1
    /\ \A r \in BagToSet(offersDb) :
           (r.Title = k.Title /\ r.Price = k.Price /\ r.UserID = k.UserID) =>
               CopiesIn(r, offersDb) = 1

\* C34: the step after a successful AddOffer leaves the offer's row in the
\* table whether or not the offer is dated today; and a key whose row is in
\* the table is notified by no step but the one that follows its insertion,
\* so an offer stored without notification is never notified afterwards,
\* whatever time later pages show for it.
C34_StoredAlwaysNotifiedOnlyWhenNew ==
    [][/\ (pc = "persist" /\ pc' = "notify") =>
              KeyStored(offersDb', offer.Title, offer.Price, search.UserID)
       /\ \A k \in StoredKeys :
              ~JustPersisted(k) => CopiesIn(k, notifyLog') = CopiesIn(k, notifyLog)]_vars

\* A later pass: the page shows, dated today, an offer whose row was stored
\* without notification; it is skipped.
C34_Witness ==
    /\ InPass
    /\ passNo >= 2
    /\ it.skipped
    /\ IsPostedToday(offer)
    /\ KeyStored(offersDb, offer.Title, offer.Price, search.UserID)
    /\ ~BagIn(OfferKey(offer, search.UserID), notifyLog)


\* The fields of an offer that the listing page gives.
ListingFields(o) ==
    [Title |-> o.Title, Price |-> o.Price, Location |-> o.Location, Time |-> o.Time,
     Url |-> o.Url]

\* C35: the offer ParseOffer returns, for an offer of olx, of otodom or of
\* neither and for every detail page or failed fetch, has the title, price,
\* location, time and URL of the offer it was called with; so its key (title,
\* price, user) after the enrichment is the one checked before it.
C35_EnrichmentKeepsListingFields ==
    (fn = "ParseOffer" /\ ~ret.panicked) =>
        /\ ListingFields(ret.offer) = ListingFields(arg.offer)
        /\ \A u \in Users : OfferKey(ret.offer, u) = OfferKey(arg.offer, u)

\* An offer of otodom whose detail page was fetched and changed its
\* description and images, the listing fields as they were.
C35_Witness ==
    /\ fn = "ParseOffer"
    /\ ~ret.panicked
    /\ ~arg.fetch.err
    /\ arg.offer.Url = OtodomUrl
    /\ ret.offer.Description # arg.offer.Description
    /\ ret.offer.Images # arg.offer.Images
    /\ ret.offer.Title = "Pokoj & kuchnia" /\ ret.offer.Price = 2500


\* A step that changes the offers table is the AddOffer of the polling
\* goroutine, adding one row whose key the table did not hold; a step that
\* changes the searches table (a step of the request handler) leaves the
\* offers table and the polling goroutine as they are.
OnlyPollerWritesOffers ==
    /\ offersDb' # offersDb =>
          /\ pc = "persist" /\ pc' = "notify"
          /\ ~KeyStored(offersDb, offer.Title, offer.Price, search.UserID)
          /\ offersDb' = offersDb (+) SetToBag({OfferRow(offer, search.UserID)})
    /\ searchDb' # searchDb =>
          /\ offersDb' = offersDb
          /\ pc' = pc /\ offer' = offer /\ it' = it

\* C36: the offers table is written by the AddOffer step of the polling
\* goroutine alone, never by a step of the request handler, so between the
\* existence check and the insert no other writer comes in and the table never
\* holds two rows of one (title, price, user).
C36_SingleWriterOfOffers ==
    /\ [][OnlyPollerWritesOffers]_vars
    /\ [](\A r \in BagToSet(offersDb), q \in BagToSet(offersDb) :
             (q.Title = r.Title /\ q.Price = r.Price /\ q.UserID = r.UserID) =>
                 (q = r /\ CopiesIn(r, offersDb) = 1))

\* The handler deleted the search of the pass between the check of an offer
\* and the step after its insertion; the row is in the table once.
C36_Witness ==
    /\ pc = "notify"
    /\ it.persisted
    /\ SearchGone /\ ~pass.gone
    /\ CopiesIn(OfferRow(offer, search.UserID), offersDb) = 1

(***************************************************************************)
(* The new-search dialogue.                                                *)
(***************************************************************************)
\* A draft appears only by the user's choice of a city and disappears only
\* by the user's next message or cancel.
DraftLifecycle ==
    \A u \in Users :
        /\ (u \notin DOMAIN userStates /\ u \in DOMAIN userStates')
              => (fn' = "newSearchProcessCity" /\ arg'.user = u)
        /\ (u \in DOMAIN userStates /\ u \notin DOMAIN userStates')
              => (fn' \in {"processMessage", "cancel_new_search"} /\ arg'.user = u)

\* The rows of the searches table that the last request added.
AddedRows == {searchDb[i] : i \in 1..Len(searchDb)} \ {arg.before[i] : i \in 1..Len(arg.before)}

\* The state after each request of the dialogue.
DraftAfterRequest ==
    /\ fn = "newSearchProcessCity"
          => (/\ arg.user \in DOMAIN userStates
              /\ userStates[arg.user].state = "search|price"
              /\ userStates[arg.user].city = arg.text
              /\ searchDb = arg.before)
    /\ fn = "cancel_new_search"
          => (arg.user \notin DOMAIN userStates /\ searchDb = arg.before)
    /\ fn = "processMessage"
          => (/\ arg.user \notin DOMAIN userStates
              /\ AddedRows # {}
                    => (/\ arg.draft # "none"
                        /\ processPriceStr(arg.text).err = ""
                        /\ Len(searchDb) = Len(arg.before) + 1
                        /\ \A r \in AddedRows :
                              /\ r.UserID = arg.user
                              /\ r.URL = CreateUrl(SearchTerm(arg.draft,
                                             processPriceStr(arg.text).minPrice,
                                             processPriceStr(arg.text).maxPrice)).url))
    /\ fn = "removeSearchFromDatabase" => AddedRows = {}

\* C37: a subscriber has a draft of a new search from the choice of a city
\* until their next message or a cancel; the message removes the draft whether
\* its price range is valid or not, cancel removes it without creating a
\* search, and a search is added only from a draft whose price range parsed.
C37_DraftFromCityUntilMessageOrCancel ==
    /\ [][DraftLifecycle]_vars
    /\ [](fn \in {"newSearchProcessCity", "cancel_new_search", "processMessage",
                  "removeSearchFromDatabase"} => DraftAfterRequest)

\* A message that is no price range has removed the draft of a user while an
\* earlier draft of a valid range has become a search.
C37_Witness ==
    /\ fn = "processMessage"
    /\ arg.draft \in CityCodes \ {""}
    /\ processPriceStr(arg.text).err # ""
    /\ arg.user \notin DOMAIN userStates
    /\ Len(searchDb) > 0
    /\ searchDb = arg.before

(***************************************************************************)
(* The scan of ParseHtml.                                                  *)
(***************************************************************************)
\* The closing divs among the tokens read, less the opening ones.
RECURSIVE DivExcess(_)
DivExcess(tokens) ==
    IF tokens = <<>> THEN 0
    ELSE DivExcess(SubSeq(tokens, 1, Len(tokens) - 1))
         + (IF tokens[Len(tokens)].data # "div" THEN 0
            ELSE IF tokens[Len(tokens)].tt = "end" THEN 1
            ELSE IF tokens[Len(tokens)].tt = "start" THEN -1 ELSE 0)

\* C38: in every state of the scan of ParseHtml the depth is at least 0, and
\* outside a card the depth is 0 and the buffer is empty, whatever the tokens,
\* unbalanced or stray closing tags included.
C38_ScanDepthInvariant ==
    fn = "ParseHtml(scan)"
        => (/\ ret.depth >= 0
            /\ ~ret.isOffer => (ret.depth = 0 /\ ret.offerContent = <<>>)
            /\ ret = SegmentLoop(arg, SegmentStart))

\* A document that begins with a stray closing div and has more closing than
\* opening divs: one card closed, the scan outside a card again.
C38_Witness ==
    /\ fn = "ParseHtml(scan)"
    /\ Len(arg) = MaxScanLen
    /\ arg[1] = EndTag("div")
    /\ DivExcess(arg) > 0
    /\ Len(ret.contents) = 1
    /\ ret.contents[1] # <<>>
    /\ ~ret.isOffer

=============================================================================
